---- MODULE Spec2Model ----
(***************************************************************************)
(* graphgate: the schema composer (crates/schema/src/composed_schema.rs)   *)
(* and the query planner (crates/planner/src/builder/*.rs, types.rs).      *)
(*                                                                         *)
(* Five specifications share the variables:                                *)
(*   Spec         the planner: plan() on the gateway's composed schema     *)
(*   SpecCombine  the composer: ComposedSchema::combine on subgraph lists  *)
(*   SpecShare    the composer on subgraphs that share types and fields    *)
(*   SpecPlan     plan() from the request: validation, operation lookup,   *)
(*                queries, mutations and subscriptions                     *)
(*   SpecNested   the planner on a schema of self- and mutually            *)
(*                referential entities and of interfaces                   *)
(***************************************************************************)
EXTENDS Integers, Sequences, FiniteSets, TLC

VARIABLES
    \* ---- planner (PlanBuilder::build_root_selection_set) ----
    pc,                 \* position of plan(): "idle","rooted","flattening","done", ...
    operation,          \* the operation document being planned
    root_group,         \* RootGroup: Seq of [service, sel]
    fetch_entity_group, \* FetchEntityGroup (IndexMap): Seq of [key, entity]
    introspection,      \* IntrospectionSelectionSet
    key_id,             \* Context::key_id
    nodes,              \* the Vec<PlanNode> of build_root_selection_set
    plan,               \* the returned PlanNode (after the outer flatten)
    \* ---- composer (ComposedSchema::combine) ----
    cpc,                \* position of combine(): "off","input","sorted","merging","done"
    federation_sdl,     \* the caller's list of (service, document)
    sorted_services,    \* the list after sort_by
    next_service,       \* index of the next subgraph to merge
    composed            \* [types, err, orig, mutation_type, subscription_type]

vars == <<pc, operation, root_group, fetch_entity_group, introspection, key_id,
          nodes, plan, cpc, federation_sdl, sorted_services, next_service, composed>>

plannerVars == <<pc, operation, root_group, fetch_entity_group, introspection,
                 key_id, nodes, plan>>
composerVars == <<cpc, federation_sdl, sorted_services, next_service, composed>>

(***************************************************************************)
(* Generic helpers                                                         *)
(***************************************************************************)
\* the element of a singleton set: {e(x) : x \in {v}} evaluates v once and
\* names the result, as a Rust `let` binding does
TheOne(S) == CHOOSE x \in S : TRUE

NoService == "-"          \* Option<String>::None for owner / service

Last(s) == s[Len(s)]
Front(s) == SubSeq(s, 1, Len(s) - 1)

RECURSIVE SeqToSet(_)
SeqToSet(s) == IF s = <<>> THEN {} ELSE {Head(s)} \cup SeqToSet(Tail(s))

\* index of the first element of s whose .name is n, 0 when absent
RECURSIVE IndexFrom(_, _, _)
IndexFrom(s, n, i) ==
    IF i > Len(s) THEN 0
    ELSE IF s[i].name = n THEN i ELSE IndexFrom(s, n, i + 1)
IndexOf(s, n) == IndexFrom(s, n, 1)
Contains(s, n) == IndexOf(s, n) # 0
Get(s, n) == s[IndexOf(s, n)]

\* IndexMap::insert: replace in place when the key exists, else append
IndexMapInsert(s, v) ==
    IF Contains(s, v.name) THEN [s EXCEPT ![IndexOf(s, v.name)] = v]
    ELSE Append(s, v)

\* IndexMap::swap_remove: the last element takes the removed slot
SwapRemove(s, n) ==
    LET i == IndexOf(s, n) IN
    IF i = 0 THEN s
    ELSE IF i = Len(s) THEN Front(s)
    ELSE [k \in 1..(Len(s) - 1) |-> IF k = i THEN Last(s) ELSE s[k]]

RECURSIVE AllOrders(_)
AllOrders(S) ==
    IF S = {} THEN {<<>>}
    ELSE UNION {{<<x>> \o p : p \in AllOrders(S \ {x})} : x \in S}

(***************************************************************************)
(* KeyFields: IndexMap<Name, KeyFields>, a sequence of [name, children]    *)
(***************************************************************************)
KF(n) == [name |-> n, children |-> <<>>]
KFN(n, c) == [name |-> n, children |-> c]
NoneKF == [some |-> FALSE, kf |-> <<>>]
SomeKF(k) == [some |-> TRUE, kf |-> k]

KeyNames(kf) == {kf[i].name : i \in 1..Len(kf)}


(***************************************************************************)
(* Subgraph SDL (the parser's ServiceDocument), as far as combine reads it *)
(***************************************************************************)
\* parser::types::Type: a named base or a list, and its nullability
Ty(n) == [base |-> n, list |-> FALSE, nullable |-> TRUE]
TyNN(n) == [base |-> n, list |-> FALSE, nullable |-> FALSE]
TyList(n) == [base |-> n, list |-> TRUE, nullable |-> TRUE]

\* an argument definition (InputValueDefinition)
Arg(n, t) == [name |-> n, ty |-> t, has_default |-> FALSE]

\* a FieldDefinition with its federation directives
Fld(n, t) ==
    [name |-> n, ty |-> t, args |-> <<>>, external |-> FALSE, shareable |-> FALSE,
     resolve |-> NoService, requires |-> NoneKF, provides |-> NoneKF,
     tags |-> {}, inaccessible |-> FALSE]
External(n, t) == [Fld(n, t) EXCEPT !.external = TRUE]

\* a TypeDefinition: kind, extend flag, directives, fields; owner is the
\* service of an @owner(service:) directive written after any @shareable
ObjType(n, fs) ==
    [name |-> n, kind |-> "Object", extend |-> FALSE, shareable |-> FALSE,
     keys |-> <<>>, resolvable |-> TRUE, implements |-> <<>>, fields |-> fs,
     members |-> <<>>, inaccessible |-> FALSE, owner |-> NoService]
Entity(n, k, fs) == [ObjType(n, fs) EXCEPT !.keys = <<k>>]
ExtendType(n, fs) == [ObjType(n, fs) EXCEPT !.extend = TRUE]
ExtendEntity(n, k, fs) == [ObjType(n, fs) EXCEPT !.extend = TRUE, !.keys = <<k>>]
OtherType(n, k) ==
    [name |-> n, kind |-> k, extend |-> FALSE, shareable |-> FALSE,
     keys |-> <<>>, resolvable |-> TRUE, implements |-> <<>>, fields |-> <<>>,
     members |-> <<>>, inaccessible |-> FALSE, owner |-> NoService]

\* a SchemaDefinition (`schema` / `extend schema`) with one @link directive:
\* url is the text before the last '/' as path segments and the text after
\* it as characters; as_name is "" without `as`; an import is the string
\* form [at, name] or the object form [at, name, as_at, as_name], `at`
\* telling whether the text starts with '@' and name being the rest
SchemaDefinition(link) ==
    [name |-> "schema", kind |-> "Schema", extend |-> TRUE, shareable |-> FALSE,
     keys |-> <<>>, resolvable |-> TRUE, implements |-> <<>>, fields |-> <<>>,
     members |-> <<>>, inaccessible |-> FALSE, owner |-> NoService, link |-> link]

KeyId == <<KF("id")>>

\* Service names in the order of String::cmp
ServiceNames == <<"inventory", "products", "reviews", "users">>
ServiceRank(s) == CHOOSE i \in 1..Len(ServiceNames) : ServiceNames[i] = s

InventorySDL == <<
    ObjType("Query", <<Fld("topBuyer", Ty("User"))>>),
    ExtendEntity("Product", KeyId,
        <<External("id", TyNN("ID")), Fld("weight", Ty("Float")), Fld("size", Ty("Float"))>>),
    ExtendType("User",
        <<[Fld("loyalty", Ty("Int")) EXCEPT !.requires = SomeKF(<<KF("name")>>)]>>) >>

ProductsSDL == <<
    ObjType("Query", <<Fld("products", TyList("Product"))>>),
    Entity("Product", KeyId,
        <<Fld("id", TyNN("ID")), Fld("name", Ty("String")),
          [Fld("shippingEstimate", Ty("Int")) EXCEPT
              !.requires = SomeKF(<<KF("weight"), KF("size")>>)],
          [Fld("reviews", TyList("Review")) EXCEPT
              !.provides = SomeKF(<<KFN("author", <<KF("id"), KF("name")>>)>>)]>>),
    ExtendEntity("Review", KeyId, <<External("id", TyNN("ID"))>>) >>

ReviewsSDL == <<
    ObjType("Query", <<Fld("topReviews", TyList("Review"))>>),
    ObjType("Mutation", <<Fld("addReview", Ty("Review"))>>),
    Entity("Review", KeyId, <<Fld("id", TyNN("ID")), Fld("text", Ty("String"))>>),
    ExtendEntity("User", KeyId,
        <<External("id", TyNN("ID")), Fld("reviews", TyList("Review"))>>),
    ExtendEntity("Product", KeyId, <<External("id", TyNN("ID"))>>) >>

UsersSDL == <<
    ObjType("Query", <<Fld("user", Ty("User"))>>),
    ObjType("Mutation", <<Fld("createUser", Ty("User")), Fld("deleteUser", Ty("User"))>>),
    Entity("User", KeyId,
        <<Fld("id", TyNN("ID")), Fld("name", Ty("String")),
          [Fld("bestFriend", Ty("User")) EXCEPT !.tags = {"social"}],
          [Fld("secret", Ty("String")) EXCEPT !.inaccessible = TRUE]>>),
    ExtendEntity("Review", KeyId,
        <<External("id", TyNN("ID")), Fld("author", Ty("User"))>>) >>

\* the gateway's subgraphs, as (service name, document)
Subgraph(s, d) == [service |-> s, doc |-> d]
GatewaySubgraphs == <<
    Subgraph("users", UsersSDL), Subgraph("reviews", ReviewsSDL),
    Subgraph("products", ProductsSDL), Subgraph("inventory", InventorySDL) >>


(***************************************************************************)
(* The composed schema (MetaType, MetaField) and ComposedSchema::combine   *)
(***************************************************************************)
RootObjects == {"Query", "Mutation", "Subscription"}
COMMON_SCALAR_TYPES == {"DateTime", "Date", "Time", "JSON", "UUID", "Email", "URL"}

NoError == [kind |-> "none"]

NewMetaType(n, k) ==
    [name |-> n, kind |-> k, owner |-> NoService, keys |-> <<>>, is_entity |-> FALSE,
     implements |-> <<>>, fields |-> <<>>, possible_types |-> <<>>,
     inaccessible |-> FALSE]

\* HashMap<String, Vec<KeyFields>>: entry(service).or_default().push(kf)
KeysPush(keys, service, kf) ==
    [s \in (DOMAIN keys) \cup {service} |->
        IF s = service
        THEN (IF s \in DOMAIN keys THEN Append(keys[s], kf) ELSE <<kf>>)
        ELSE keys[s]]

RECURSIVE KeysPushAll(_, _, _)
KeysPushAll(keys, service, kfs) ==
    IF kfs = <<>> THEN keys
    ELSE KeysPushAll(KeysPush(keys, service, Head(kfs)), service, Tail(kfs))

\* the top-level names of every key the service declared for the type
IsFieldEntityKey(mt, service, field_name) ==
    /\ service \in DOMAIN mt.keys
    /\ \E i \in 1..Len(mt.keys[service]) : field_name \in KeyNames(mt.keys[service][i])

convert_field_definition(fd) ==
    [name |-> fd.name, args |-> fd.args, ty |-> fd.ty, service |-> fd.resolve,
     requires |-> fd.requires, provides |-> fd.provides,
     tags |-> fd.tags, inaccessible |-> fd.inaccessible]

\* composed_schema.rs 955-1043; lines 1013-1040 read @shareable, @owner
convert_type_definition(def) ==
    [NewMetaType(def.name, def.kind) EXCEPT
        !.owner = def.owner,
        !.implements = IF def.kind \in {"Object", "Interface"} THEN def.implements ELSE <<>>,
        !.fields = IF def.kind \in {"Object", "Interface"}
                   THEN [i \in 1..Len(def.fields) |-> convert_field_definition(def.fields[i])]
                   ELSE <<>>,
        !.possible_types = IF def.kind = "Union" THEN def.members ELSE <<>>,
        !.inaccessible = def.inaccessible]

RequiredArg(a) == ~a.ty.nullable /\ ~a.has_default

\* one of the two argument loops of combine: the first required argument of
\* `mine` that `theirs` lacks or types differently (the loop breaks there)
RECURSIVE FirstArgProblem(_, _, _)
FirstArgProblem(mine, theirs, i) ==
    IF i > Len(mine) THEN [kind |-> "none"]
    ELSE IF ~RequiredArg(mine[i]) THEN FirstArgProblem(mine, theirs, i + 1)
    ELSE IF Contains(theirs, mine[i].name)
         THEN IF Get(theirs, mine[i].name).ty # mine[i].ty
              THEN [kind |-> "types", arg |-> mine[i].name,
                    mine_ty |-> mine[i].ty, their_ty |-> Get(theirs, mine[i].name).ty]
              ELSE FirstArgProblem(mine, theirs, i + 1)
         ELSE [kind |-> "missing", arg |-> mine[i].name]

\* combine without the argument comparison of lines 519-628
ArgumentsUnchecked(type_name, existing, new, service, is_field_shareable) == NoError
\* composed_schema.rs 519-628: the argument compatibility check of a field
\* that already exists in the accumulated type
ArgumentsError(type_name, existing, new, service, is_field_shareable) ==
    IF existing.args = <<>> /\ new.args = <<>> THEN NoError
    ELSE IF is_field_shareable THEN NoError
    ELSE
      LET p1 == FirstArgProblem(existing.args, new.args, 1)
          p2 == FirstArgProblem(new.args, existing.args, 1)
      IN IF p1.kind = "types"
         THEN [kind |-> "IncompatibleArgumentTypes", type_name |-> type_name,
               field_name |-> new.name, arg_name |-> p1.arg,
               type1 |-> p1.mine_ty, type2 |-> p1.their_ty]
         ELSE IF p1.kind = "missing"
         THEN [kind |-> "MissingRequiredArgument", type_name |-> type_name,
               field_name |-> new.name, arg_name |-> p1.arg, service |-> service]
         ELSE IF p2.kind = "types"
         THEN [kind |-> "IncompatibleArgumentTypes", type_name |-> type_name,
               field_name |-> new.name, arg_name |-> p2.arg,
               type1 |-> p2.their_ty, type2 |-> p2.mine_ty]
         ELSE IF p2.kind = "missing"
         THEN [kind |-> "MissingRequiredArgument", type_name |-> type_name,
               field_name |-> new.name, arg_name |-> p2.arg,
               service |-> IF existing.service = NoService THEN "unknown"
                           ELSE existing.service]
         ELSE NoError

\* composed_schema.rs 458-658: merge one field definition into the type
MergeField(mt, def, fd, service, is_extend) ==
    LET type_is_shareable == def.shareable
        is_key == IsFieldEntityKey(mt, service, fd.name)
        first_named == Get(def.fields, fd.name)
    IN
    IF is_extend /\ fd.external
    THEN IF ~is_key /\ ~type_is_shareable /\ ~first_named.shareable
         THEN [mt |-> mt,
               err |-> [kind |-> "NonShareableFieldReferenced", type_name |-> mt.name,
                        field_name |-> fd.name, service |-> service]]
         ELSE [mt |-> mt, err |-> NoError]
    ELSE
      LET new_field == convert_field_definition(fd)
          exists == Contains(mt.fields, fd.name)
          args_err == IF exists
                      THEN ArgumentsError(def.name, Get(mt.fields, fd.name), new_field,
                                          service, fd.shareable)
                      ELSE NoError
          share_err ==
              IF exists /\ ~type_is_shareable /\ ~fd.shareable /\ ~is_key
              THEN IF Get(mt.fields, fd.name).ty # new_field.ty
                   THEN [kind |-> "FieldTypeConflicted", type_name |-> def.name,
                         field_name |-> fd.name,
                         type1 |-> Get(mt.fields, fd.name).ty, type2 |-> new_field.ty]
                   ELSE [kind |-> "FieldConflicted", type_name |-> def.name,
                         field_name |-> fd.name]
              ELSE NoError
          meta_field == IF is_extend THEN [new_field EXCEPT !.service = service]
                        ELSE new_field
      IN IF args_err # NoError THEN [mt |-> mt, err |-> args_err]
         ELSE IF share_err # NoError THEN [mt |-> mt, err |-> share_err]
         ELSE [mt |-> [mt EXCEPT !.fields = IndexMapInsert(mt.fields, meta_field)],
               err |-> NoError]

RECURSIVE MergeFields(_, _, _, _, _)
MergeFields(mt, def, i, service, is_extend) ==
    IF i > Len(def.fields) THEN [mt |-> mt, err |-> NoError]
    ELSE LET r == MergeField(mt, def, def.fields[i], service, is_extend)
         IN IF r.err # NoError THEN r
            ELSE MergeFields(r.mt, def, i + 1, service, is_extend)

\* IndexSet::extend
RECURSIVE IndexSetExtend(_, _)
IndexSetExtend(s, xs) ==
    IF xs = <<>> THEN s
    ELSE IndexSetExtend(IF Head(xs) \in SeqToSet(s) THEN s ELSE Append(s, Head(xs)),
                        Tail(xs))

FieldNames(fs) == [i \in 1..Len(fs) |-> fs[i].name]

\* composed_schema.rs 382-452: the check of a partial entity reference
IncompleteEntityError(mt, def, service, orig) ==
    LET shareable_anywhere ==
            \/ def.shareable
            \/ mt.owner = NoService
            \/ \E p \in DOMAIN orig : p[1] = mt.name /\ orig[p].shareable
        current_fields == SeqToSet(FieldNames(def.fields))
        key_fields == UNION {UNION {KeyNames(mt.keys[s][i]) : i \in 1..Len(mt.keys[s])}
                             : s \in DOMAIN mt.keys}
        IsMissingNonKey(f) == f \notin current_fields /\ f \notin key_fields /\ f # "id"
        missing_non_key == SelectSeq(FieldNames(mt.fields), IsMissingNonKey)
        only_key_fields == \A f \in current_fields : f \in key_fields \/ f = "id"
    IN IF mt.is_entity /\ mt.fields # <<>> /\ ~shareable_anywhere
          /\ missing_non_key # <<>> /\ ~only_key_fields
       THEN [kind |-> "IncompleteEntityReference", type_name |-> mt.name,
             service |-> service, missing_fields |-> missing_non_key]
       ELSE NoError

\* composed_schema.rs 318-658: one object type definition of a subgraph
MergeObjectType(types, orig, service, def) ==
    LET is_extend == def.extend \/ def.name \in RootObjects
        types1 == IF Contains(types, def.name) THEN types
                  ELSE Append(types, NewMetaType(def.name, "Object"))
        mt0 == Get(types1, def.name)
        already_shareable == mt0.owner = NoService
        mt1 == IF def.keys # <<>>
               THEN [mt0 EXCEPT !.is_entity = TRUE,
                                !.keys = KeysPushAll(mt0.keys, service, def.keys)]
               ELSE mt0
        mt2 == IF def.shareable \/ already_shareable
               THEN [mt1 EXCEPT !.owner = NoService]
               ELSE IF ~is_extend /\ ~def.shareable /\ def.resolvable /\ ~mt1.is_entity
               THEN [mt1 EXCEPT !.owner = service]
               ELSE mt1
        incomplete == IncompleteEntityError(mt2, def, service, orig)
        mt3 == [mt2 EXCEPT !.implements = IndexSetExtend(mt2.implements, def.implements),
                           !.inaccessible = mt2.inaccessible \/ def.inaccessible]
        merged == MergeFields(mt3, def, 1, service, is_extend)
    IN IF incomplete # NoError THEN [types |-> types1, err |-> incomplete]
       ELSE [types |-> [types1 EXCEPT ![IndexOf(types1, def.name)] = merged.mt],
             err |-> merged.err]

\* composed_schema.rs 660-730: a scalar, enum, union, interface or input object
MergeOtherType(types, service, def) ==
    LET meta_type == convert_type_definition(def)
    IN IF Contains(types, def.name)
       THEN LET meta_type2 == Get(types, def.name)
            IN IF meta_type.kind = "Scalar" /\ meta_type2.kind = "Scalar"
                  /\ def.name \in COMMON_SCALAR_TYPES
               THEN [types |-> types, err |-> NoError]
               ELSE IF meta_type2.owner # NoService /\ ~def.shareable /\ ~meta_type2.is_entity
               THEN [types |-> types,
                     err |-> [kind |-> "ValueTypeOwnershipConflicted", type_name |-> def.name,
                              owner_service |-> meta_type2.owner,
                              current_service |-> service]]
               ELSE IF meta_type2 # meta_type
               THEN [types |-> types,
                     err |-> IF meta_type2.kind # meta_type.kind
                             THEN [kind |-> "TypeKindConflicted", type_name |-> def.name,
                                   kind1 |-> meta_type2.kind, kind2 |-> meta_type.kind]
                             ELSE [kind |-> "DefinitionConflicted", type_name |-> def.name]]
               ELSE IF def.shareable
               THEN [types |-> [types EXCEPT ![IndexOf(types, def.name)].owner = NoService],
                     err |-> NoError]
               ELSE [types |-> types, err |-> NoError]
       ELSE [types |-> Append(types, IF def.shareable THEN meta_type
                                     ELSE [meta_type EXCEPT !.owner = service]),
             err |-> NoError]

\* composed_schema.rs 316-734: the match on one definition; the arms for
\* Schema and Directive definitions (732-733) are empty
MergeDefinition(types, orig, service, def) ==
    IF def.kind = "Schema" THEN [types |-> types, err |-> NoError]
    ELSE IF def.kind = "Object" THEN MergeObjectType(types, orig, service, def)
    ELSE MergeOtherType(types, service, def)

RECURSIVE MergeDefinitions(_, _, _, _, _)
MergeDefinitions(types, orig, service, doc, i) ==
    IF i > Len(doc) THEN [types |-> types, err |-> NoError]
    ELSE LET r == MergeDefinition(types, orig, service, doc[i])
         IN IF r.err # NoError THEN r
            ELSE MergeDefinitions(r.types, orig, service, doc, i + 1)

\* composed_schema.rs 303-312: original_type_definitions[type][service] = def
StoreOriginals(orig, service, doc) ==
    LET names == {doc[i].name : i \in {j \in 1..Len(doc) : doc[j].kind # "Schema"}}
        LastDef(n) == doc[CHOOSE i \in 1..Len(doc) :
                             /\ doc[i].name = n /\ doc[i].kind # "Schema"
                             /\ \A j \in (i + 1)..Len(doc) :
                                    doc[j].name # n \/ doc[j].kind = "Schema"]
    IN [p \in (DOMAIN orig) \cup {<<n, service>> : n \in names} |->
            IF p[2] = service /\ p[1] \in names THEN LastDef(p[1]) ELSE orig[p]]

\* composed_schema.rs 302-736: one iteration of the loop over sorted_services
MergeSubgraph(cs, sub) ==
    IF cs.err # NoError THEN cs
    ELSE LET orig1 == StoreOriginals(cs.orig, sub.service, sub.doc)
             r == MergeDefinitions(cs.types, orig1, sub.service, sub.doc, 1)
         IN [cs EXCEPT !.types = r.types, !.err = r.err, !.orig = orig1]

\* composed_schema.rs 894-953: federation_version is the text after the last
\* '/' of the url without a leading 'v', federation_namespace is the pair
\* <<prefix, "__">> of format!("{}__", ..), directive_mapping is a function
\* from the name used to the original name
process_link_directive(cs, link) ==
    LET with_version ==
            IF "federation" \in SeqToSet(link.url.path)
            THEN [cs EXCEPT
                    !.federation_version =
                        [some |-> TRUE,
                         v |-> IF link.url.last # <<>> /\ Head(link.url.last) = "v"
                               THEN Tail(link.url.last) ELSE link.url.last],
                    !.federation_namespace = [some |-> TRUE, v |-> <<"federation", "__">>]]
            ELSE cs
        with_as ==
            IF link.as_name # ""
            THEN [with_version EXCEPT
                    !.federation_namespace = [some |-> TRUE, v |-> <<link.as_name, "__">>]]
            ELSE with_version
        RECURSIVE Imports(_, _)
        Imports(mapping, i) ==
            IF i > Len(link.import) THEN mapping
            ELSE LET imp == link.import[i]
                     Insert(k, v) == [n \in (DOMAIN mapping) \cup {k} |->
                                         IF n = k THEN v ELSE mapping[n]]
                 IN Imports(IF "as_name" \in DOMAIN imp
                            THEN IF imp.at /\ imp.as_at
                                 THEN Insert(imp.as_name, imp.name) ELSE mapping
                            ELSE IF imp.at THEN Insert(imp.name, imp.name) ELSE mapping,
                            i + 1)
    IN [with_as EXCEPT !.directive_mapping = Imports(with_as.directive_mapping, 1)]

\* composed_schema.rs 271-296: the seeded root objects and, from
\* ComposedSchema::default(), no federation metadata
InitialComposed ==
    [types |-> <<NewMetaType("Query", "Object"), NewMetaType("Mutation", "Object"),
                 NewMetaType("Subscription", "Object")>>,
     err |-> NoError, orig |-> <<>>,
     mutation_type |-> TRUE, subscription_type |-> TRUE,
     federation_version |-> [some |-> FALSE, v |-> <<>>],
     federation_namespace |-> [some |-> FALSE, v |-> <<>>],
     directive_mapping |-> <<>>]

\* composed_schema.rs 299-300: sort_by(|(a, _), (b, _)| a.cmp(b)), a stable sort
RECURSIVE InsertByName(_, _)
InsertByName(sorted, x) ==
    IF sorted = <<>> THEN <<x>>
    ELSE IF ServiceRank(Last(sorted).service) <= ServiceRank(x.service)
         THEN Append(sorted, x)
         ELSE Append(InsertByName(Front(sorted), x), Last(sorted))

RECURSIVE SortServicesFrom(_, _)
SortServicesFrom(done, rest) ==
    IF rest = <<>> THEN done
    ELSE SortServicesFrom(InsertByName(done, Head(rest)), Tail(rest))
\* combine without the sort: the services merged in the caller's order
ServicesAsGiven(list) == list
SortServices(list) == SortServicesFrom(<<>>, list)

(***************************************************************************)
(* The end of combine: empty roots, key validation, finish_schema          *)
(***************************************************************************)
RECURSIVE ConcatAll(_)
ConcatAll(ss) == IF ss = <<>> THEN <<>> ELSE Head(ss) \o ConcatAll(Tail(ss))

\* The iteration orders a HashMap or HashSet keyed by service name may take
HashOrders ==
    {ServiceNames, [i \in 1..Len(ServiceNames) |-> ServiceNames[Len(ServiceNames) + 1 - i]]}

\* the elements of the hash container S in the iteration order h
HashIter(S, h) == SelectSeq(h, LAMBDA x : x \in S)

\* composed_schema.rs 752-781: the key fields of one (type, service) that the
\* service's own object definition does not declare, in iteration order
MissingKeysIn(mt, orig, service) ==
    IF <<mt.name, service>> \in DOMAIN orig /\ orig[<<mt.name, service>>].kind = "Object"
    THEN LET field_names == SeqToSet(FieldNames(orig[<<mt.name, service>>].fields))
             OfKey(kf) == SelectSeq(FieldNames(kf), LAMBDA n : n \notin field_names)
             errs == ConcatAll([k \in 1..Len(mt.keys[service]) |-> OfKey(mt.keys[service][k])])
         IN [i \in 1..Len(errs) |->
                [kind |-> "KeyFieldsMissing", type_name |-> mt.name,
                 field_name |-> errs[i], service |-> service]]
    ELSE <<>>

KeyErrorsOfType(mt, orig, h) ==
    IF mt.is_entity
    THEN LET services == HashIter(DOMAIN mt.keys, h)
         IN ConcatAll([j \in 1..Len(services) |-> MissingKeysIn(mt, orig, services[j])])
    ELSE <<>>

\* combine without the key validation of lines 752-781
KeysUnvalidated(types, orig, h) == NoError
ValidateKeyFields(types, orig, h) ==
    LET errs == ConcatAll([i \in 1..Len(types) |-> KeyErrorsOfType(types[i], orig, h)])
    IN IF errs = <<>> THEN NoError ELSE Head(errs)

\* builtin.graphql: the built-in scalars and the introspection object types
BuiltinTypes ==
    <<NewMetaType("Int", "Scalar"), NewMetaType("Float", "Scalar"),
      NewMetaType("String", "Scalar"), NewMetaType("Boolean", "Scalar"),
      NewMetaType("ID", "Scalar"),
      NewMetaType("__Schema", "Object"), NewMetaType("__Type", "Object")>>

RECURSIVE InsertAll(_, _)
InsertAll(types, more) ==
    IF more = <<>> THEN types
    ELSE InsertAll(IndexMapInsert(types, Head(more)), Tail(more))

IntrospectionField(n, t, args) ==
    [name |-> n, args |-> args, ty |-> t, service |-> NoService,
     requires |-> NoneKF, provides |-> NoneKF, tags |-> {}, inaccessible |-> FALSE]

\* the object types that implement `name`, in the order of the type map
ImplementorsOf(types, name) ==
    FieldNames(SelectSeq(types,
        LAMBDA t : t.kind = "Object" /\ name \in SeqToSet(t.implements)))

\* composed_schema.rs 1202-1283
finish_schema(types0) ==
    LET types1 == InsertAll(types0, BuiltinTypes)
        q == IndexOf(types1, "Query")
        types2 ==
            IF q = 0 THEN types1
            ELSE [types1 EXCEPT ![q].fields =
                    IndexMapInsert(
                        IndexMapInsert(@, IntrospectionField("__type", Ty("__Type"),
                                             <<Arg("name", TyNN("String"))>>)),
                        IntrospectionField("__schema", TyNN("__Schema"), <<>>))]
    IN [i \in 1..Len(types2) |->
            IF ImplementorsOf(types2, types2[i].name) # <<>>
            THEN [types2[i] EXCEPT !.possible_types = ImplementorsOf(types2, types2[i].name)]
            ELSE types2[i]]

\* composed_schema.rs 738-750: an empty Mutation / Subscription root is dropped
DropEmptyRoot(cs, root) ==
    IF Contains(cs.types, root) /\ Get(cs.types, root).fields = <<>>
    THEN IF root = "Mutation"
         THEN [cs EXCEPT !.types = SwapRemove(cs.types, root), !.mutation_type = FALSE]
         ELSE [cs EXCEPT !.types = SwapRemove(cs.types, root), !.subscription_type = FALSE]
    ELSE cs

\* composed_schema.rs 738-784
FinishCombined(cs0, h) ==
    LET cs1 == DropEmptyRoot(DropEmptyRoot(cs0, "Mutation"), "Subscription")
        key_err == ValidateKeyFields(cs1.types, cs1.orig, h)
    IN IF key_err # NoError THEN [cs1 EXCEPT !.err = key_err]
       ELSE [cs1 EXCEPT !.types = finish_schema(cs1.types)]

RECURSIVE MergeAll(_, _)
MergeAll(cs, sorted) ==
    IF sorted = <<>> THEN cs
    ELSE TheOne({MergeAll(next, Tail(sorted)) :
                    next \in {MergeSubgraph(cs, Head(sorted))}})

\* ComposedSchema::combine as a function of its input and of the iteration
\* order h of MetaType.keys
Combine(list, h) ==
    TheOne({IF merged.err # NoError THEN merged ELSE FinishCombined(merged, h) :
               merged \in {MergeAll(InitialComposed, SortServices(list))}})

\* Result<ComposedSchema, CombineError> as the caller sees it
CombineResult(cs) ==
    IF cs.err = NoError
    THEN [ok |-> TRUE, types |-> cs.types, mutation_type |-> cs.mutation_type,
          subscription_type |-> cs.subscription_type]
    ELSE [ok |-> FALSE, err |-> cs.err]

(***************************************************************************)
(* The planner's inputs: the composed schema and the operation document    *)
(***************************************************************************)
MAX_PATH_LENGTH == 20
MAX_FIELD_REPETITIONS == 2
MIN_PATH_LENGTH_FOR_PATTERN_CHECK == 4

\* PlanBuilder::schema: the composed schema the gateway plans against
Schema == composed.types

\* ComposedSchema::get_type: the named type under any list wrapper
HasType(ty) == Contains(Schema, ty.base)
get_type(ty) == Get(Schema, ty.base)

\* parser::types::Field and Selection::InlineFragment of the operation
Field(n, sel) == [k |-> "field", name |-> n, alias |-> "", sel |-> sel]
Leaf(n) == Field(n, <<>>)
Aliased(a, f) == [f EXCEPT !.alias = a]
InlineFragment(tc, sel) == [k |-> "inline", tc |-> tc, sel |-> sel]

response_key(f) == IF f.alias # "" THEN f.alias ELSE f.name

\* plan::PathSegment
PathSegment(f, fd) ==
    [name |-> response_key(f), is_list |-> fd.ty.list, possible_type |-> NoService]

\* types::SelectionRef
FieldRef(f, sub) == [k |-> "FieldRef", field |-> f, selection_set |-> sub]
RequiredRef(prefix, fields, requires) ==
    [k |-> "RequiredRef", prefix |-> prefix, fields |-> fields, requires |-> requires]
InlineFragmentRef(tc, sub) ==
    [k |-> "InlineFragment", type_condition |-> tc, selection_set |-> sub]

(***************************************************************************)
(* builder/context.rs                                                      *)
(***************************************************************************)
\* Context::all_selections_satisfied
RECURSIVE all_selections_satisfied(_, _)
all_selections_satisfied(sel, provided_fields) ==
    \A i \in 1..Len(sel) :
        IF sel[i].k = "field"
        THEN \/ sel[i].name = "__typename"
             \/ /\ Contains(provided_fields, sel[i].name)
                /\ \/ sel[i].sel = <<>>
                   \/ all_selections_satisfied(sel[i].sel,
                          Get(provided_fields, sel[i].name).children)
        ELSE all_selections_satisfied(sel[i].sel, provided_fields)

\* Context::selection_set_satisfied_by_provides
selection_set_satisfied_by_provides(field_name, sel, provides) ==
    /\ Contains(provides, field_name)
    /\ \/ sel = <<>>
       \/ all_selections_satisfied(sel, Get(provides, field_name).children)

\* Context::can_field_be_provided
can_field_be_provided(parent_type, f, current_service) ==
    \E i \in 1..Len(parent_type.fields) :
        /\ \/ parent_type.fields[i].service = current_service
           \/ parent_type.owner = current_service
        /\ parent_type.fields[i].provides.some
        /\ selection_set_satisfied_by_provides(f.name, f.sel,
               parent_type.fields[i].provides.kf)

\* Context::field_in_keys; a key name holds no whitespace, so the compound
\* key loop finds nothing the direct lookup has not found
RECURSIVE field_in_keys(_, _)
RECURSIVE selection_set_in_keys(_, _)
selection_set_in_keys(sel, keys) ==
    \A i \in 1..Len(sel) :
        IF sel[i].k = "field" THEN field_in_keys(sel[i], keys)
        ELSE selection_set_in_keys(sel[i].sel, keys)
field_in_keys(f, keys) ==
    /\ Contains(keys, f.name)
    /\ selection_set_in_keys(f.sel, Get(keys, f.name).children)

(***************************************************************************)
(* The mutable planning state threaded through FieldResolver:              *)
(*   path    ResponsePath                                                  *)
(*   sel     the SelectionRefSet being filled                              *)
(*   group   FetchEntityGroup: Seq of [key, prefix, fields]                *)
(*   key_id  Context::key_id                                               *)
(***************************************************************************)
PlanState(path, sel, group, kid) ==
    [path |-> path, sel |-> sel, group |-> group, key_id |-> kid]

FetchEntityKey(service, path, parent_type) ==
    [service |-> service, path |-> path, parent_type |-> parent_type]

RECURSIVE GroupIndexFrom(_, _, _)
GroupIndexFrom(group, key, i) ==
    IF i > Len(group) THEN 0
    ELSE IF group[i].key = key THEN i ELSE GroupIndexFrom(group, key, i + 1)
GroupIndex(group, key) == GroupIndexFrom(group, key, 1)

\* the insert-or-push on the FetchEntityGroup shared by the handlers
InsertOrPush(group, key, prefix, f) ==
    IF GroupIndex(group, key) = 0
    THEN Append(group, [key |-> key, prefix |-> prefix, fields |-> <<f>>])
    ELSE [group EXCEPT ![GroupIndex(group, key)].fields = Append(@, f)]

\* FieldResolver::add_fetch_entity and ProvidesDirectiveHandler::add_fetch_entity
add_fetch_entity(st, f, parent_type, service) ==
    PlanState(st.path,
              Append(st.sel, FieldRef(f, <<>>)),
              InsertOrPush(st.group, FetchEntityKey(service, st.path, parent_type.name),
                           st.key_id, f),
              st.key_id + 1)

\* FieldResolver::should_skip_due_to_recursion
should_skip_due_to_recursion(path, f) ==
    /\ Len(path) > MIN_PATH_LENGTH_FOR_PATTERN_CHECK
    /\ Cardinality({i \in 1..Len(path) : path[i].name = f.name}) > MAX_FIELD_REPETITIONS

\* FieldResolver::determine_service_for_field
determine_service_for_field(fd, parent_type, current_service, f) ==
    IF fd.service # NoService THEN fd.service
    ELSE IF can_field_be_provided(parent_type, f, current_service) THEN current_service
    ELSE IF parent_type.owner # NoService THEN parent_type.owner
    ELSE current_service

\* parent_type.keys.get(service).and_then(|x| x.first())
HasFirstKey(parent_type, service) ==
    service \in DOMAIN parent_type.keys /\ parent_type.keys[service] # <<>>
FirstKey(parent_type, service) == parent_type.keys[service][1]

\* TagDirectiveHandler::process_tag_field
process_tag_field(st, f, fd) ==
    LET pushed == Append(st.path, PathSegment(f, fd))
    IN PlanState(Front(pushed), Append(st.sel, FieldRef(f, <<>>)), st.group, st.key_id)

\* ProvidesDirectiveHandler::handle
provides_handle(st, h, f, fd, parent_type, current_service, provides) ==
    LET st1 == [st EXCEPT !.path = Append(st.path, PathSegment(f, fd))]
        Popped(s) == [s EXCEPT !.path = Front(s.path)]
    IN IF selection_set_satisfied_by_provides(f.name, f.sel, provides)
       THEN Popped(add_fetch_entity(st1, f, parent_type, current_service))
       ELSE IF fd.ty.list THEN Popped(st1)
       ELSE IF HasType(fd.ty)
       THEN LET field_type == get_type(fd.ty)
                external_services == (DOMAIN field_type.keys) \ {current_service}
            IN IF field_type.owner # NoService
               THEN Popped(add_fetch_entity(st1, f, parent_type, field_type.owner))
               ELSE IF external_services # {}
               THEN Popped(add_fetch_entity(st1, f, parent_type,
                                            Head(HashIter(external_services, h))))
               ELSE Popped(add_fetch_entity(st1, f, parent_type, current_service))
       ELSE Popped(add_fetch_entity(st1, f, parent_type, current_service))

\* DirectiveHandler::find_external_services_for_requires
find_external_services_for_requires(requires, parent_type, current_service) ==
    LET OfField(n) ==
            IF Contains(parent_type.fields, n) /\ HasType(Get(parent_type.fields, n).ty)
            THEN LET entity_type == get_type(Get(parent_type.fields, n).ty)
                 IN ((DOMAIN entity_type.keys) \ {current_service})
                    \cup (IF entity_type.owner # NoService
                             /\ entity_type.owner # current_service
                          THEN {entity_type.owner} ELSE {})
            ELSE {}
        found == UNION {OfField(n) : n \in KeyNames(requires)}
    IN IF found = {} THEN (DOMAIN parent_type.keys) \ {current_service} ELSE found

\* DirectiveHandler::create_fetch_entities_for_external_services
RECURSIVE create_fetch_entities_for_external_services(_, _, _, _, _)
create_fetch_entities_for_external_services(group, services, path, parent_type, prefix) ==
    IF services = <<>> THEN group
    ELSE LET key == FetchEntityKey(Head(services), path, parent_type.name)
         IN TheOne({create_fetch_entities_for_external_services(
                        group1, Tail(services), path, parent_type, prefix) :
                    group1 \in {IF GroupIndex(group, key) = 0
                                THEN Append(group, [key |-> key, prefix |-> prefix,
                                                    fields |-> <<>>])
                                ELSE group}})

\* DirectiveHandler::handle_requires_directive
handle_requires_directive(st, h, f, fd, parent_type, current_service, requires) ==
    IF Len(st.path) > MAX_PATH_LENGTH THEN st
    ELSE IF Cardinality({i \in 1..Len(st.path) : st.path[i].name = response_key(f)}) >= 3
    THEN st
    ELSE
      LET path1 == Append(st.path, PathSegment(f, fd))
          sel1 == Append(st.sel, FieldRef(f, <<>>))
          prefix == st.key_id
          group1 == InsertOrPush(st.group,
                        FetchEntityKey(current_service, path1, parent_type.name), prefix, f)
          external_services ==
              find_external_services_for_requires(requires, parent_type, current_service)
          group2 == create_fetch_entities_for_external_services(
                        group1, HashIter(external_services, h), path1, parent_type, prefix)
      IN PlanState(Front(path1), sel1, group2, st.key_id + 1)

(***************************************************************************)
(* builder/field_resolver.rs                                               *)
(***************************************************************************)
\* FieldResolver::handle_service_mismatch; the branches that add a fetch
\* entity return without popping the segment they pushed
handle_service_mismatch(st, service, parent_type, f, fd) ==
    LET st1 == [st EXCEPT !.path = Append(st.path, PathSegment(f, fd))]
        Popped(s) == [s EXCEPT !.path = Front(s.path)]
        key_service ==
            IF HasFirstKey(parent_type, service) THEN service
            ELSE IF parent_type.owner # NoService /\ HasFirstKey(parent_type, parent_type.owner)
            THEN parent_type.owner
            ELSE NoService
    IN IF key_service = NoService THEN Popped(st1)
       ELSE
         LET keys == FirstKey(parent_type, key_service)
             field_defined_in_service == fd.service = service
             provides_can_satisfy ==
                 fd.provides.some
                 /\ selection_set_satisfied_by_provides(f.name, f.sel, fd.provides.kf)
         IN IF field_defined_in_service \/ provides_can_satisfy \/ ~field_in_keys(f, keys)
            THEN add_fetch_entity(st1, f, parent_type, service)
            ELSE IF fd.provides.some /\ ~provides_can_satisfy
            THEN IF fd.ty.list THEN Popped(st1)
                 ELSE IF HasType(fd.ty) /\ get_type(fd.ty).owner # NoService
                 THEN add_fetch_entity(st1, f, parent_type, get_type(fd.ty).owner)
                 ELSE Popped(st1)
            ELSE Popped(st1)

\* path.last_mut().unwrap().possible_type = v
SetLastPossibleType(path, v) == [path EXCEPT ![Len(path)].possible_type = v]

RECURSIVE build_field(_, _, _, _, _)
RECURSIVE build_selection_set(_, _, _, _, _)
RECURSIVE build_fields(_, _, _, _, _, _)

\* FieldResolver::build_selection_set: an inline fragment and a defined
\* fragment spread are entered whatever their type condition (an undefined
\* spread carries the empty selection set)
build_selection_set(st, h, current_service, parent_type, sel) ==
    IF sel = <<>> THEN st
    ELSE TheOne({build_selection_set(st1, h, current_service, parent_type, Tail(sel)) :
                 st1 \in {IF Head(sel).k = "field"
                          THEN build_field(st, h, current_service, parent_type, Head(sel))
                          ELSE build_selection_set(st, h, current_service, parent_type,
                                                   Head(sel).sel)}})

\* the inner build_fields of build_abstract_selection_set; r is
\* [st, by_type]: the planning state and the IndexMap of type -> selection.
\* A spread of a fragment whose type condition names no type of the schema
\* returns from the loop, leaving the items after it unvisited
build_fields(r, h, current_service, sel, possible_type, i) ==
    IF i > Len(sel) THEN r
    ELSE
      LET current_ty == possible_type.name
          item == sel[i]
          by_type1 == IF Contains(r.by_type, current_ty) THEN r.by_type
                      ELSE Append(r.by_type, [name |-> current_ty, sel |-> <<>>])
      IN IF item.k = "spread" /\ item.defined /\ item.tc # current_ty
            /\ ~Contains(Schema, item.tc)
         THEN r
         ELSE
           TheOne({build_fields(r1, h, current_service, sel, possible_type, i + 1) :
                 r1 \in {IF item.k = "field"
                         THEN TheOne({[st |-> [built EXCEPT !.sel = r.st.sel],
                                       by_type |-> [by_type1 EXCEPT
                                           ![IndexOf(by_type1, current_ty)].sel = built.sel]] :
                                      built \in {build_field(
                                          [r.st EXCEPT !.sel = Get(by_type1, current_ty).sel],
                                          h, current_service, possible_type, item)}})
                         ELSE IF item.k = "spread"
                         THEN IF item.defined
                                 /\ \/ item.tc = current_ty
                                    \/ Get(Schema, item.tc).kind \in {"Interface", "Union"}
                              THEN build_fields(r, h, current_service, item.sel,
                                                possible_type, 1)
                              ELSE r
                         ELSE IF item.tc = current_ty \/ item.tc = ""
                         THEN build_fields(r, h, current_service, item.sel, possible_type, 1)
                         ELSE r}})

RECURSIVE build_possible_types(_, _, _, _, _, _)
build_possible_types(r, h, current_service, parent_type, sel, i) ==
    IF i > Len(parent_type.possible_types) THEN r
    ELSE IF ~Contains(Schema, parent_type.possible_types[i])
    THEN build_possible_types(r, h, current_service, parent_type, sel, i + 1)
    ELSE
      LET ty == Get(Schema, parent_type.possible_types[i])
      IN TheOne({build_possible_types(
                     [r2 EXCEPT !.st.path = SetLastPossibleType(@, NoService)],
                     h, current_service, parent_type, sel, i + 1) :
                 r2 \in {build_fields(r1, h, current_service, sel, ty, 1) :
                         r1 \in {[r EXCEPT !.st.path = SetLastPossibleType(@, ty.name)]}}})

\* FieldResolver::build_abstract_selection_set
build_abstract_selection_set(st, h, current_service, parent_type, sel) ==
    TheOne({LET kept == SelectSeq(r.by_type, LAMBDA e : e.sel # <<>>)
            IN [r.st EXCEPT !.sel =
                   @ \o [j \in 1..Len(kept) |->
                            InlineFragmentRef(kept[j].name, kept[j].sel)]] :
            r \in {build_possible_types([st |-> st, by_type |-> <<>>], h, current_service,
                                        parent_type, sel, 1)}})

\* FieldResolver::process_field_in_current_service
process_field_in_current_service(st, h, service, f, fd) ==
    TheOne({PlanState(Front(sub.path), Append(st.sel, FieldRef(f, sub.sel)),
                      sub.group, sub.key_id) :
            sub \in {IF f.sel # <<>> /\ HasType(fd.ty)
                     THEN IF get_type(fd.ty).kind \in {"Interface", "Union"}
                          THEN build_abstract_selection_set(sub0, h, service,
                                                            get_type(fd.ty), f.sel)
                          ELSE build_selection_set(sub0, h, service, get_type(fd.ty), f.sel)
                     ELSE sub0 :
                     sub0 \in {PlanState(Append(st.path, PathSegment(f, fd)), <<>>,
                                         st.group, st.key_id)}}})

\* build_field without the test of the path length at lines 62-65
build_field_any_length(st, h, current_service, parent_type, f) ==
    IF should_skip_due_to_recursion(st.path, f) THEN st
    ELSE IF ~Contains(parent_type.fields, f.name) THEN st
    ELSE
      LET fd == Get(parent_type.fields, f.name)
          service == determine_service_for_field(fd, parent_type, current_service, f)
      IN IF fd.inaccessible THEN st
         ELSE IF HasType(fd.ty) /\ get_type(fd.ty).inaccessible THEN st
         ELSE IF fd.tags # {} /\ HasFirstKey(parent_type, current_service)
         THEN process_tag_field(st, f, fd)
         ELSE IF fd.provides.some
                 /\ selection_set_satisfied_by_provides(f.name, f.sel, fd.provides.kf)
         THEN provides_handle(st, h, f, fd, parent_type, current_service, fd.provides.kf)
         ELSE IF fd.requires.some /\ service = current_service
         THEN handle_requires_directive(st, h, f, fd, parent_type, current_service,
                                        fd.requires.kf)
         ELSE IF service # current_service
         THEN handle_service_mismatch(st, service, parent_type, f, fd)
         ELSE process_field_in_current_service(st, h, service, f, fd)

\* FieldResolver::build_field
build_field(st, h, current_service, parent_type, f) ==
    IF Len(st.path) > MAX_PATH_LENGTH THEN st
    ELSE IF should_skip_due_to_recursion(st.path, f) THEN st
    ELSE IF ~Contains(parent_type.fields, f.name) THEN st
    ELSE
      LET fd == Get(parent_type.fields, f.name)
          service == determine_service_for_field(fd, parent_type, current_service, f)
      IN IF fd.inaccessible THEN st
         ELSE IF HasType(fd.ty) /\ get_type(fd.ty).inaccessible THEN st
         ELSE IF fd.tags # {} /\ HasFirstKey(parent_type, current_service)
         THEN process_tag_field(st, f, fd)
         ELSE IF fd.provides.some
                 /\ selection_set_satisfied_by_provides(f.name, f.sel, fd.provides.kf)
         THEN provides_handle(st, h, f, fd, parent_type, current_service, fd.provides.kf)
         ELSE IF fd.requires.some /\ service = current_service
         THEN handle_requires_directive(st, h, f, fd, parent_type, current_service,
                                        fd.requires.kf)
         ELSE IF service # current_service
         THEN handle_service_mismatch(st, service, parent_type, f, fd)
         ELSE process_field_in_current_service(st, h, service, f, fd)

(***************************************************************************)
(* types.rs: the printed query of a Fetch or Flatten                       *)
(***************************************************************************)
RECURSIVE stringify_key_fields_no_prefix(_)
RECURSIVE KeyFieldsTail(_, _)
\* the loop body runs only for idx > 0: the first child is never printed
KeyFieldsTail(fields, i) ==
    IF i > Len(fields) THEN ""
    ELSE " " \o fields[i].name \o stringify_key_fields_no_prefix(fields[i].children)
             \o KeyFieldsTail(fields, i + 1)
stringify_key_fields_no_prefix(fields) ==
    IF fields = <<>> THEN "" ELSE "{" \o KeyFieldsTail(fields, 2) \o "}"

RECURSIVE stringify_key_fields(_, _)
stringify_key_fields(prefix, fields) ==
    IF fields = <<>> THEN ""
    ELSE " __key" \o ToString(prefix) \o "_" \o Head(fields).name \o ":" \o Head(fields).name
             \o stringify_key_fields_no_prefix(Head(fields).children)
             \o stringify_key_fields(prefix, Tail(fields))

RECURSIVE stringify_selection_ref_set_rec(_)
RECURSIVE StringifyItems(_, _)
StringifyItem(sr) ==
    CASE sr.k = "FieldRef" ->
            (IF sr.field.alias # "" THEN sr.field.alias \o ":" ELSE "")
            \o sr.field.name
            \o (IF sr.selection_set # <<>>
                THEN " " \o stringify_selection_ref_set_rec(sr.selection_set) ELSE "")
      [] sr.k = "RequiredRef" ->
            "__key" \o ToString(sr.prefix) \o "___typename:__typename"
            \o stringify_key_fields(sr.prefix, sr.fields)
            \o (IF sr.requires.some THEN stringify_key_fields(sr.prefix, sr.requires.kf)
                ELSE "")
      [] sr.k = "InlineFragment" ->
            (IF sr.type_condition # "" THEN "... on " \o sr.type_condition \o " "
             ELSE "... ")
            \o stringify_selection_ref_set_rec(sr.selection_set)
StringifyItems(sel, i) ==
    IF i > Len(sel) THEN ""
    ELSE (IF i > 1 THEN " " ELSE "") \o StringifyItem(sel[i]) \o StringifyItems(sel, i + 1)
stringify_selection_ref_set_rec(sel) == "{ " \o StringifyItems(sel, 1) \o " }"

\* impl Display for FetchQuery (the operations carry no variables)
FetchQueryString(entity_type, operation_type, sel) ==
    IF entity_type # ""
    THEN "query($representations:[_Any!]!) { _entities(representations:$representations) { ... on "
         \o entity_type \o " " \o stringify_selection_ref_set_rec(sel) \o " } }"
    ELSE operation_type \o "\n" \o stringify_selection_ref_set_rec(sel)

(***************************************************************************)
(* plan.rs: the plan nodes                                                 *)
(***************************************************************************)
FetchNode(service, operation_type, sel) ==
    [type |-> "fetch", service |-> service, selection_set |-> sel,
     query |-> FetchQueryString("", operation_type, sel)]
FlattenNode(path, prefix, service, entity_type, sel) ==
    [type |-> "flatten", path |-> path, prefix |-> prefix, service |-> service,
     entity_type |-> entity_type, selection_set |-> sel,
     query |-> FetchQueryString(entity_type, "subscription", sel)]
IntrospectionNode(sel) == [type |-> "introspection", selection_set |-> sel]
SequenceNode(ns) == [type |-> "sequence", nodes |-> ns]
ParallelNode(ns) == [type |-> "parallel", nodes |-> ns]

\* a flatten that leaves every node as it is
flatten_nothing(node) == node

\* PlanNode::flatten: a Sequence or Parallel of one child is that child
flatten(node) ==
    IF node.type \in {"sequence", "parallel"} /\ Len(node.nodes) = 1
    THEN node.nodes[1] ELSE node

(***************************************************************************)
(* builder/plan_builder.rs                                                 *)
(***************************************************************************)
\* a planner that takes no root field for an introspection field
NoIntrospectionField(name) == FALSE
is_introspection_field(name) == name = "__type" \/ name = "__schema"

\* PlanBuilder::build_introspection_field
RECURSIVE build_introspection_field(_)
RECURSIVE build_introspection_selection_set(_)
build_introspection_selection_set(sel) ==
    IF sel = <<>> THEN <<>>
    ELSE (IF Head(sel).k = "field" THEN <<build_introspection_field(Head(sel))>>
          ELSE build_introspection_selection_set(Head(sel).sel))
         \o build_introspection_selection_set(Tail(sel))
build_introspection_field(f) ==
    [name |-> f.name, alias |-> f.alias,
     selection_set |-> build_introspection_selection_set(f.sel)]

\* RootGroup::selection_set_mut: QueryRootGroup is a BTreeMap ordered by the
\* service name, MutationRootGroup a Vec searched by position
selection_set_mut(groups, service, operation_type) ==
    IF Contains(groups, service) THEN groups
    ELSE IF operation_type = "query"
    THEN SelectSeq(groups, LAMBDA e : ServiceRank(e.name) < ServiceRank(service))
         \o <<[name |-> service, sel |-> <<>>]>>
         \o SelectSeq(groups, LAMBDA e : ServiceRank(e.name) > ServiceRank(service))
    ELSE Append(groups, [name |-> service, sel |-> <<>>])

\* PlanBuilder::build_root_selection_set_rec; r is
\* [root_group, group, key_id, introspection]
RECURSIVE build_root_selection_set_rec(_, _, _, _, _)
build_root_selection_set_rec(r, h, operation_type, parent_type, sel) ==
    IF sel = <<>> THEN r
    ELSE
      LET item == Head(sel)
      IN TheOne({build_root_selection_set_rec(r1, h, operation_type, parent_type, Tail(sel)) :
           r1 \in {
            IF item.k # "field"
            THEN build_root_selection_set_rec(r, h, operation_type, parent_type, item.sel)
            ELSE IF ~Contains(parent_type.fields, item.name) THEN r
            ELSE IF is_introspection_field(item.name)
            THEN [r EXCEPT !.introspection = Append(@, build_introspection_field(item))]
            ELSE IF Get(parent_type.fields, item.name).service = NoService THEN r
            ELSE
              LET service == Get(parent_type.fields, item.name).service
              IN TheOne({
                   TheOne({[r EXCEPT !.root_group =
                                        [rg EXCEPT ![IndexOf(rg, service)].sel = built.sel],
                                     !.group = built.group,
                                     !.key_id = built.key_id] :
                           built \in {build_field(
                               PlanState(<<>>, Get(rg, service).sel, r.group, r.key_id),
                               h, service, parent_type, item)}}) :
                   rg \in {selection_set_mut(r.root_group, service, operation_type)}})}})

\* plan(): the root type of the operation
RootTypeName(operation_type) ==
    CASE operation_type = "query" -> "Query"
      [] operation_type = "mutation" -> "Mutation"
      [] OTHER -> "Subscription"

\* build_root_selection_set, lines 187-198
BuildRoot(op, h) ==
    build_root_selection_set_rec(
        [root_group |-> <<>>, group |-> <<>>, key_id |-> 1, introspection |-> <<>>],
        h, op.ty, Get(Schema, RootTypeName(op.ty)), op.sel)

\* build_root_selection_set, lines 200-229
RootNodes(operation_type, rg, intro) ==
    LET fetches == [i \in 1..Len(rg) |-> FetchNode(rg[i].name, operation_type, rg[i].sel)]
        fetch_node == IF operation_type = "query" THEN flatten(ParallelNode(fetches))
                      ELSE flatten(SequenceNode(fetches))
    IN (IF intro # <<>> THEN <<IntrospectionNode(intro)>> ELSE <<>>) \o <<fetch_node>>

\* the fields of one fetch entity, built in turn
RECURSIVE BuildEntityFields(_, _, _, _, _)
BuildEntityFields(st, h, service, parent_type, fields) ==
    IF fields = <<>> THEN st
    ELSE TheOne({BuildEntityFields(st1, h, service, parent_type, Tail(fields)) :
                 st1 \in {build_field(st, h, service, parent_type, Head(fields))}})

\* build_root_selection_set, lines 235-271: r is [flatten_nodes, next_group, key_id]
RECURSIVE BuildFlattenNodes(_, _, _, _)
BuildFlattenNodes(r, h, group, i) ==
    IF i > Len(group) THEN r
    ELSE
      LET e == group[i]
      IN TheOne({BuildFlattenNodes(r1, h, group, i + 1) :
           r1 \in {[flatten_nodes |-> Append(r.flatten_nodes,
                                      FlattenNode(built.path, e.prefix, e.key.service,
                                                  e.key.parent_type, built.sel)),
                    next_group |-> built.group,
                    key_id |-> built.key_id] :
                   built \in {BuildEntityFields(
                       PlanState(e.key.path, <<>>, r.next_group, r.key_id),
                       h, e.key.service, Get(Schema, e.key.parent_type), e.fields)}}})

\* one pass of `while !fetch_entity_group.is_empty()`
FlattenRoundOf(group, kid, h) ==
    BuildFlattenNodes([flatten_nodes |-> <<>>, next_group |-> <<>>, key_id |-> kid],
                      h, group, 1)

(***************************************************************************)
(* Spec: plan() on the gateway's schema                                    *)
(***************************************************************************)
MaxRootFields == 3
MaxQueryFields == 2

\* root fields of validated queries
QueryFields == {
    Field("user", <<Leaf("name"), Field("reviews", <<Leaf("text")>>)>>),
    Field("user", <<Field("bestFriend", <<Leaf("name")>>), Leaf("name")>>),
    Field("user", <<Leaf("loyalty"), Leaf("secret")>>),
    Field("products", <<Leaf("name"), Leaf("shippingEstimate")>>),
    Field("products", <<Field("reviews", <<Field("author", <<Leaf("id"), Leaf("name")>>)>>)>>),
    Field("topBuyer", <<Leaf("loyalty")>>),
    Field("topReviews", <<Leaf("text"), Field("author", <<Leaf("name")>>)>>),
    Field("__schema", <<Field("queryType", <<Leaf("name")>>)>>) }

SeqsUpTo(S, n) == UNION {[1..k -> S] : k \in 1..n}

Operation(ty, sel) == [ty |-> ty, sel |-> sel]
Operations ==
    LET \* root fields of validated mutations
        MutationFields == {
            Field("createUser", <<Leaf("name")>>),
            Field("addReview", <<Leaf("text")>>),
            Field("deleteUser", <<Leaf("id")>>) }
    IN
    {Operation("query", sel) : sel \in SeqsUpTo(QueryFields, MaxQueryFields)}
    \cup {Operation("mutation", sel) : sel \in SeqsUpTo(MutationFields, MaxRootFields)}

\* the gateway has composed its subgraphs before it plans
Init ==
    /\ cpc = "done" /\ federation_sdl = GatewaySubgraphs
    /\ sorted_services = SortServices(GatewaySubgraphs)
    /\ next_service = Len(GatewaySubgraphs) + 1
    /\ composed = Combine(GatewaySubgraphs, ServiceNames)
    /\ pc = "idle"
    /\ operation \in Operations
    /\ root_group = <<>>
    /\ fetch_entity_group = <<>>
    /\ introspection = <<>>
    /\ key_id = 1
    /\ nodes = <<>>
    /\ plan = <<>>

\* build_root_selection_set, lines 187-198
BuildRootSelectionSet ==
    /\ pc = "idle"
    /\ \E h \in HashOrders : \E r \in {BuildRoot(operation, h)} :
             /\ root_group' = r.root_group
             /\ fetch_entity_group' = r.group
             /\ introspection' = r.introspection
             /\ key_id' = r.key_id
    /\ pc' = "rooted"
    /\ UNCHANGED <<operation, nodes, plan>>
    /\ UNCHANGED composerVars

\* build_root_selection_set, lines 200-229
EmitRootFetches ==
    /\ pc = "rooted"
    /\ nodes' = RootNodes(operation.ty, root_group, introspection)
    /\ pc' = "flattening"
    /\ UNCHANGED <<operation, root_group, fetch_entity_group, introspection, key_id, plan>>
    /\ UNCHANGED composerVars

\* build_root_selection_set, lines 231-275: one pass of the while loop
FlattenRound ==
    /\ pc = "flattening"
    /\ fetch_entity_group # <<>>
    /\ \E h \in HashOrders : \E r \in {FlattenRoundOf(fetch_entity_group, key_id, h)} :
             /\ nodes' = Append(nodes, flatten(ParallelNode(r.flatten_nodes)))
             /\ fetch_entity_group' = r.next_group
             /\ key_id' = r.key_id
    /\ UNCHANGED <<pc, operation, root_group, introspection, plan>>
    /\ UNCHANGED composerVars

\* build_root_selection_set, line 277
ReturnPlan ==
    /\ pc = "flattening"
    /\ fetch_entity_group = <<>>
    /\ plan' = flatten(SequenceNode(nodes))
    /\ pc' = "done"
    /\ UNCHANGED <<operation, root_group, fetch_entity_group, introspection, key_id, nodes>>
    /\ UNCHANGED composerVars

Next == BuildRootSelectionSet \/ EmitRootFetches \/ FlattenRound \/ ReturnPlan

Spec == Init /\ [][Next]_vars

\* plan() as a function of the operation and of one iteration order h
RECURSIVE FlattenRounds(_, _, _, _)
FlattenRounds(ns, group, kid, h) ==
    IF group = <<>> THEN ns
    ELSE TheOne({FlattenRounds(Append(ns, flatten(ParallelNode(r.flatten_nodes))),
                               r.next_group, r.key_id, h) :
                 r \in {FlattenRoundOf(group, kid, h)}})

PlanOf(op, h) ==
    TheOne({flatten(SequenceNode(
                FlattenRounds(RootNodes(op.ty, r.root_group, r.introspection),
                              r.group, r.key_id, h))) :
            r \in {BuildRoot(op, h)}})

(***************************************************************************)
(* Reading a finished plan                                                 *)
(***************************************************************************)
\* the fetch and flatten nodes under a node, in document order
RECURSIVE LeavesOf(_)
LeavesOf(node) ==
    IF node.type \in {"sequence", "parallel"}
    THEN ConcatAll([i \in 1..Len(node.nodes) |-> LeavesOf(node.nodes[i])])
    ELSE IF node.type \in {"fetch", "flatten"} THEN <<node>> ELSE <<>>

\* the execution rounds of a plan: the children of a Sequence run one after
\* the other, the children of a Parallel in the same round
RECURSIVE Timeline(_)
Timeline(node) ==
    IF node.type = "sequence"
    THEN ConcatAll([i \in 1..Len(node.nodes) |-> Timeline(node.nodes[i])])
    ELSE <<LeavesOf(node)>>

\* every (round, node) of the returned plan
PlanLeaves ==
    LET tl == Timeline(plan)
    IN UNION {{[t |-> t, node |-> tl[t][j]] : j \in 1..Len(tl[t])} : t \in 1..Len(tl)}

FlattenLeaves == {x \in PlanLeaves : x.node.type = "flatten"}

\* the type a node's selection is applied to
NodeType(n) == IF n.type = "flatten" THEN n.entity_type ELSE RootTypeName(operation.ty)

\* every field a selection selects, at any depth, with the type it is selected on
RECURSIVE SelectedFields(_, _)
SelectedFields(sel, type_name) ==
    UNION {
        IF sel[i].k = "FieldRef"
        THEN {[parent |-> type_name, name |-> sel[i].field.name]}
             \cup (IF sel[i].selection_set # <<>> /\ Contains(Schema, type_name)
                      /\ Contains(Get(Schema, type_name).fields, sel[i].field.name)
                   THEN SelectedFields(sel[i].selection_set,
                            Get(Get(Schema, type_name).fields, sel[i].field.name).ty.base)
                   ELSE {})
        ELSE IF sel[i].k = "InlineFragment"
        THEN SelectedFields(sel[i].selection_set, sel[i].type_condition)
        ELSE {}
        : i \in 1..Len(sel)}

TopLevelNames(sel) == {sel[i].field.name : i \in {j \in 1..Len(sel) : sel[j].k = "FieldRef"}}

\* the RequiredRef markers of a selection, at any depth
RECURSIVE RequiredRefs(_)
RequiredRefs(sel) ==
    UNION {IF sel[i].k = "RequiredRef" THEN {sel[i]}
           ELSE IF sel[i].k = "FieldRef" THEN RequiredRefs(sel[i].selection_set)
           ELSE RequiredRefs(sel[i].selection_set)
           : i \in 1..Len(sel)}

\* schema lookups that tolerate a missing type or field
HasField(type_name, n) ==
    Contains(Schema, type_name) /\ Contains(Get(Schema, type_name).fields, n)
FieldOf(type_name, n) == Get(Get(Schema, type_name).fields, n)

\* the leaf fields of an operation, each as the chain of names that reaches it
RECURSIVE LeafPaths(_)
LeafPaths(sel) ==
    UNION {IF sel[i].k = "field"
           THEN IF sel[i].sel = <<>> THEN {<<sel[i].name>>}
                ELSE {<<sel[i].name>> \o q : q \in LeafPaths(sel[i].sel)}
           ELSE LeafPaths(sel[i].sel)
           : i \in 1..Len(sel)}

\* the chains of a printed selection that end in a field without sub-selection
RECURSIVE PrintedLeafPaths(_)
PrintedLeafPaths(sel) ==
    UNION {IF sel[i].k = "FieldRef"
           THEN IF sel[i].selection_set = <<>> THEN {<<sel[i].field.name>>}
                ELSE {<<sel[i].field.name>> \o q : q \in PrintedLeafPaths(sel[i].selection_set)}
           ELSE IF sel[i].k = "InlineFragment" THEN PrintedLeafPaths(sel[i].selection_set)
           ELSE {}
           : i \in 1..Len(sel)}

IsSuffix(q, l) == Len(q) <= Len(l) /\ SubSeq(l, Len(l) - Len(q) + 1, Len(l)) = q

\* a node reaches the leaf l: a Fetch prints the whole chain, a Flatten prints
\* the tail of the chain below its entity
Reaches(n, l) ==
    IF n.type = "fetch" THEN l \in PrintedLeafPaths(n.selection_set)
    ELSE \E q \in PrintedLeafPaths(n.selection_set) : Len(q) < Len(l) /\ IsSuffix(q, l)

\* every field of an operation selection, with the type it is selected on
RECURSIVE OperationFields(_, _)
OperationFields(sel, type_name) ==
    UNION {IF sel[i].k = "field"
           THEN {[parent |-> type_name, field |-> sel[i]]}
                \cup (IF HasField(type_name, sel[i].name)
                      THEN OperationFields(sel[i].sel, FieldOf(type_name, sel[i].name).ty.base)
                      ELSE {})
           ELSE OperationFields(sel[i].sel, type_name)
           : i \in 1..Len(sel)}

\* the type reached from type_name along the names of a response path
RECURSIVE TypeAt(_, _)
TypeAt(type_name, path) ==
    IF path = <<>> THEN type_name
    ELSE IF HasField(type_name, Head(path).name)
    THEN TypeAt(FieldOf(type_name, Head(path).name).ty.base, Tail(path))
    ELSE NoService

\* every segment's is_list is the list-ness of the schema's field
RECURSIVE SegmentsAgree(_, _)
SegmentsAgree(type_name, path) ==
    \/ path = <<>>
    \/ /\ HasField(type_name, Head(path).name)
       /\ Head(path).is_list = FieldOf(type_name, Head(path).name).ty.list
       /\ SegmentsAgree(FieldOf(type_name, Head(path).name).ty.base, Tail(path))

PathNames(path) == [i \in 1..Len(path) |-> path[i].name]

(***************************************************************************)
(* Properties of the returned plan                                         *)
(***************************************************************************)
\* the round in which the root field of this name is fetched
RootFieldRound(n) ==
    CHOOSE t \in 1..Len(Timeline(plan)) :
        \E j \in 1..Len(Timeline(plan)[t]) :
            /\ Timeline(plan)[t][j].type = "fetch"
            /\ n \in TopLevelNames(Timeline(plan)[t][j].selection_set)

\* C1: in the plan of a mutation, for root fields f written before g, the
\* Fetch that contains f is never placed after the Fetch that contains g.
C1_MutationSourceOrder ==
    (pc = "done" /\ operation.ty = "mutation") =>
        \A i \in 1..Len(operation.sel), j \in 1..Len(operation.sel) :
            i < j => RootFieldRound(operation.sel[i].name)
                        <= RootFieldRound(operation.sel[j].name)

\* the fields with @requires that a node selects
RequiringFields(n) ==
    {x \in SelectedFields(n.selection_set, NodeType(n)) :
        HasField(x.parent, x.name) /\ FieldOf(x.parent, x.name).requires.some}

C3_FieldsBelongToService ==
    pc = "done" =>
        \A x \in PlanLeaves :
            /\ x.node.service \in SeqToSet(ServiceNames)
            /\ \A f \in SelectedFields(x.node.selection_set, NodeType(x.node)) :
                  (HasField(f.parent, f.name)
                   /\ FieldOf(f.parent, f.name).service # NoService)
                  => FieldOf(f.parent, f.name).service = x.node.service

\* C4: for every Flatten with prefix N on (S, T), a node of an earlier round
\* selects the RequiredRef of prefix N carrying T's key for S.
C4_KeyAliasesSelected ==
    pc = "done" =>
        \A y \in FlattenLeaves :
            \E x \in PlanLeaves :
                /\ x.t < y.t
                /\ \E rr \in RequiredRefs(x.node.selection_set) :
                      /\ rr.prefix = y.node.prefix
                      /\ HasFirstKey(Get(Schema, y.node.entity_type), y.node.service)
                            => rr.fields = FirstKey(Get(Schema, y.node.entity_type),
                                                    y.node.service)

\* no field along the chain is hidden from the API by @inaccessible
RECURSIVE ChainAccessible(_, _)
ChainAccessible(type_name, l) ==
    \/ l = <<>>
    \/ /\ HasField(type_name, Head(l))
       /\ ~FieldOf(type_name, Head(l)).inaccessible
       /\ ChainAccessible(FieldOf(type_name, Head(l)).ty.base, Tail(l))

\* the leaf fields the caller asked for outside introspection
RequestedLeaves ==
    {l \in LeafPaths(operation.sel) :
        /\ ~is_introspection_field(l[1])
        /\ ChainAccessible(RootTypeName(operation.ty), l)}

\* C5: every non-introspection leaf field of the operation is reached by the
\* printed query of some Fetch or Flatten of the plan.
C5_EveryLeafFetched ==
    pc = "done" =>
        \A l \in RequestedLeaves : \E x \in PlanLeaves : Reaches(x.node, l)

\* the fields of the operation whose @provides covers their sub-selection
ProvidedFields ==
    {x \in OperationFields(operation.sel, RootTypeName(operation.ty)) :
        /\ HasField(x.parent, x.field.name)
        /\ FieldOf(x.parent, x.field.name).provides.some
        /\ x.field.sel # <<>>
        /\ all_selections_satisfied(x.field.sel,
                                    FieldOf(x.parent, x.field.name).provides.kf)}

\* C6: when @provides(P) on a field covers the caller's sub-selection, no
\* Flatten fetches that field or a field of the sub-selection.
C6_ProvidedNeedsNoFlatten ==
    pc = "done" =>
        \A x \in ProvidedFields :
            \A y \in FlattenLeaves :
                LET below == OperationFields(x.field.sel,
                                 FieldOf(x.parent, x.field.name).ty.base)
                    printed == SelectedFields(y.node.selection_set, y.node.entity_type)
                IN /\ [parent |-> x.parent, name |-> x.field.name] \notin printed
                   /\ \A b \in below :
                         [parent |-> b.parent, name |-> b.field.name] \notin printed

\* C7: a Flatten's path leads from the root type to the entity type whose
\* objects it extends, and each segment's is_list agrees with the schema.
C7_FlattenPathIsParentPath ==
    pc = "done" =>
        \A y \in FlattenLeaves :
            /\ TypeAt(RootTypeName(operation.ty), y.node.path) = y.node.entity_type
            /\ SegmentsAgree(RootTypeName(operation.ty), y.node.path)

MaxSubgraphs == 3

\* the documents a service may publish: the gateway's one (1) and a variant (2)
SDLCatalogue(service, v) ==
    LET \* documents that combine rejects
        UsersEmailKeySDL == <<
            ObjType("Query", <<Fld("user", Ty("User"))>>),
            Entity("User", <<KF("email")>>,
                <<Fld("id", TyNN("ID")), Fld("name", Ty("String"))>>) >>
        ReviewsHandleKeySDL == <<
            ObjType("Query", <<Fld("topReviews", TyList("Review"))>>),
            Entity("Review", KeyId, <<Fld("id", TyNN("ID")), Fld("text", Ty("String"))>>),
            ExtendEntity("User", <<KF("handle")>>, <<Fld("reviews", TyList("Review"))>>) >>
        ProductsWeightSDL == <<
            ObjType("Query", <<Fld("products", TyList("Product"))>>),
            Entity("Product", KeyId,
                <<Fld("id", TyNN("ID")), Fld("weight", Ty("Int"))>>) >>
    IN
    CASE service = "users" -> IF v = 1 THEN UsersSDL ELSE UsersEmailKeySDL
      [] service = "reviews" -> IF v = 1 THEN ReviewsSDL ELSE ReviewsHandleKeySDL
      [] service = "products" -> IF v = 1 THEN ProductsSDL ELSE ProductsWeightSDL
      [] OTHER -> InventorySDL

\* the lists of distinct service names of at most MaxSubgraphs entries
ServiceLists ==
    UNION {AllOrders(S) : S \in {T \in SUBSET SeqToSet(ServiceNames) :
                                    Cardinality(T) >= 1 /\ Cardinality(T) <= MaxSubgraphs}}

PlannerOff ==
    /\ pc = "off" /\ operation = <<>> /\ root_group = <<>> /\ fetch_entity_group = <<>>
    /\ introspection = <<>> /\ key_id = 1 /\ nodes = <<>> /\ plan = <<>>

InitCombine ==
    /\ PlannerOff
    /\ cpc = "input"
    /\ \E names \in ServiceLists, v \in [SeqToSet(ServiceNames) -> {1, 2}] :
          federation_sdl = [i \in 1..Len(names) |->
                               Subgraph(names[i], SDLCatalogue(names[i], v[names[i]]))]
    /\ sorted_services = <<>>
    /\ next_service = 0
    /\ composed = InitialComposed

\* composed_schema.rs 298-300
SortInput ==
    /\ cpc = "input"
    /\ sorted_services' = SortServices(federation_sdl)
    /\ next_service' = 1
    /\ cpc' = "merging"
    /\ UNCHANGED <<federation_sdl, composed>>
    /\ UNCHANGED plannerVars

\* composed_schema.rs 302-736: one pass of `for (service, doc) in sorted_services`
MergeNextSubgraph ==
    /\ cpc = "merging"
    /\ composed.err = NoError
    /\ next_service <= Len(sorted_services)
    /\ composed' = MergeSubgraph(composed, sorted_services[next_service])
    /\ next_service' = next_service + 1
    /\ UNCHANGED <<cpc, federation_sdl, sorted_services>>
    /\ UNCHANGED plannerVars

\* a `return Err(...)` inside the loop
ReturnCombineError ==
    /\ cpc = "merging"
    /\ composed.err # NoError
    /\ cpc' = "done"
    /\ UNCHANGED <<federation_sdl, sorted_services, next_service, composed>>
    /\ UNCHANGED plannerVars

\* composed_schema.rs 738-784
FinishCombine ==
    /\ cpc = "merging"
    /\ composed.err = NoError
    /\ next_service > Len(sorted_services)
    /\ \E h \in HashOrders : composed' = FinishCombined(composed, h)
    /\ cpc' = "done"
    /\ UNCHANGED <<federation_sdl, sorted_services, next_service>>
    /\ UNCHANGED plannerVars

NextCombine == SortInput \/ MergeNextSubgraph \/ ReturnCombineError \/ FinishCombine

SpecCombine == InitCombine /\ [][NextCombine]_vars

\* the orders in which the caller may hand over the same subgraphs
PermutationsOf(list) ==
    {[i \in 1..Len(list) |-> list[p[i]]] : p \in AllOrders(1..Len(list))}

\* C9: when combine has returned, it returns for every permutation of the
\* same subgraph list a structurally equal result: on success the same types
\* in the same order with the same fields, owners, field services and keys;
\* on failure a failure for every permutation, with an error the original
\* list can produce too.
C9_PermutationIndependent ==
    cpc = "done" =>
        \A p \in PermutationsOf(federation_sdl) :
            /\ \A h \in HashOrders :
                  /\ CombineResult(Combine(p, h)).ok = CombineResult(composed).ok
                  /\ composed.err = NoError
                        => CombineResult(Combine(p, h)) = CombineResult(composed)
            /\ \E h \in HashOrders :
                  CombineResult(Combine(p, h)) = CombineResult(composed)
C9_Witness ==
    /\ cpc = "done"
    /\ composed.err = NoError
    /\ Len(federation_sdl) >= 3
    /\ federation_sdl # sorted_services

(***************************************************************************)
(* SpecShare: combine on subgraphs that declare the same types and fields  *)
(***************************************************************************)
MaxShareSubgraphs == 2

\* the documents of field_sharing_test.rs, reduced to the declarations that
\* combine compares: result types, @shareable marks, arguments, keys, and
\* value types defined by more than one subgraph
ShareDocs ==
    LET \* type User @key(fields: "id") { id: ID!  <field> }, with or without
        \* an object-level @shareable
        UserWith(type_shareable, field) ==
            <<[Entity("User", KeyId, <<Fld("id", TyNN("ID")), field>>)
                  EXCEPT !.shareable = type_shareable]>>
        Posts(args) == [Fld("posts", TyList("String")) EXCEPT !.args = args]
        Shareable(field) == [field EXCEPT !.shareable = TRUE]
        \* https://specs.apollo.dev/federation/v2.3
        FederationUrl == [path |-> <<"https:", "", "specs.apollo.dev", "federation">>,
                          last |-> <<"v", "2", ".", "3">>]
    IN
    { UserWith(FALSE, Fld("name", Ty("String"))),
      UserWith(FALSE, Shareable(Fld("name", Ty("String")))),
      UserWith(TRUE, Fld("name", Ty("String"))),
      UserWith(FALSE, Fld("name", Ty("Int"))),
      UserWith(FALSE, Shareable(Fld("name", Ty("Int")))),
      <<Entity("User", <<KF("id"), KF("name")>>,
            <<Fld("id", TyNN("ID")), Fld("name", Ty("String"))>>)>>,
      <<Entity("User", <<KF("email")>>,
            <<Fld("id", TyNN("ID")), Shareable(Fld("name", Ty("String")))>>)>>,
      UserWith(TRUE, Posts(<<>>)),
      UserWith(TRUE, Posts(<<Arg("limit", TyNN("Int"))>>)),
      UserWith(TRUE, Posts(<<Arg("limit", TyNN("String"))>>)),
      UserWith(TRUE, Posts(<<Arg("limit", Ty("Int"))>>)),
      UserWith(TRUE, Posts(<<Arg("limit", Ty("String"))>>)),
      UserWith(TRUE, Posts(<<[Arg("limit", TyNN("Int")) EXCEPT !.has_default = TRUE]>>)),
      UserWith(FALSE, Shareable(Posts(<<Arg("limit", Ty("Int")),
                                        Arg("offset", TyNN("Int"))>>))),
      <<Entity("User", KeyId, <<Fld("id", TyNN("ID")), Shareable(Fld("name", Ty("String")))>>),
        ExtendType("User", <<Shareable(Fld("nickname", Ty("String")))>>)>>,
      <<ObjType("Address", <<Fld("street", Ty("String"))>>)>>,
      <<ObjType("Address", <<Fld("city", Ty("String"))>>)>>,
      <<OtherType("Role", "Enum")>>,
      <<[OtherType("Role", "Enum") EXCEPT !.shareable = TRUE]>>,
      <<[OtherType("Role", "Enum") EXCEPT !.shareable = TRUE, !.owner = "products"]>>,
      \* link_directive_test.rs 19-26, 66-73 and 103-110
      <<SchemaDefinition([url |-> FederationUrl, as_name |-> "",
                          import |-> <<[at |-> TRUE, name |-> "key"],
                                       [at |-> TRUE, name |-> "shareable"],
                                       [at |-> TRUE, name |-> "provides"]>>])>>
          \o UserWith(FALSE, Shareable(Fld("name", Ty("String")))),
      <<SchemaDefinition([url |-> FederationUrl, as_name |-> "fed",
                          import |-> <<[at |-> TRUE, name |-> "key",
                                        as_at |-> TRUE, as_name |-> "uniqueKey"],
                                       [at |-> FALSE, name |-> "shareable"]>>])>>
          \o UserWith(TRUE, Fld("name", Ty("String"))) }

\* the service name lists of two to MaxShareSubgraphs distinct names
ShareLists ==
    UNION {AllOrders(S) : S \in {T \in SUBSET {"products", "reviews", "users"} :
                                    Cardinality(T) >= 2 /\ Cardinality(T) <= MaxShareSubgraphs}}

InitShare ==
    /\ PlannerOff
    /\ cpc = "input"
    /\ \E names \in ShareLists, docs \in [{"products", "reviews", "users"} -> ShareDocs] :
          federation_sdl = [i \in 1..Len(names) |-> Subgraph(names[i], docs[names[i]])]
    /\ sorted_services = <<>>
    /\ next_service = 0
    /\ composed = InitialComposed

SpecShare == InitShare /\ [][NextCombine]_vars

\* the object type definitions of one subgraph, and its declarations of T.F
ObjectDefs(sub) == {d \in SeqToSet(sub.doc) : d.kind = "Object"}
DeclarationsOf(sub, T, F) ==
    UNION {{<<d, fd>> : fd \in {y \in SeqToSet(d.fields) : y.name = F /\ ~y.external}}
           : d \in {x \in ObjectDefs(sub) : x.name = T}}

\* the subgraphs of the input, in service-name order, that declare T.F
Declaring(T, F) ==
    SelectSeq(SortServices(federation_sdl), LAMBDA sub : DeclarationsOf(sub, T, F) # {})

\* every (type, field) that two or more subgraphs of the input declare
InputFields ==
    UNION {UNION {{<<d.name, fd.name>> : fd \in SeqToSet(d.fields)} : d \in ObjectDefs(sub)}
           : sub \in SeqToSet(federation_sdl)}
SharedFields == {tf \in InputFields : Len(Declaring(tf[1], tf[2])) >= 2}

MarkedShareable(sub, T, F) ==
    \A p \in DeclarationsOf(sub, T, F) : p[1].shareable \/ p[2].shareable
InEntityKey(T, F) ==
    \E sub \in SeqToSet(federation_sdl) : \E d \in ObjectDefs(sub) :
        d.name = T /\ \E i \in 1..Len(d.keys) : F \in KeyNames(d.keys[i])

\* C11: when combine returns a schema, every object field that two or more
\* subgraphs declare is marked @shareable (on the field or on the object) in
\* every subgraph that declares it, or is part of an entity key; and an
\* input with a field that is neither makes combine fail, whichever of the
\* declaring subgraphs sorts first.
C11_SharedFieldsShareableEverywhere ==
    cpc = "done" /\ composed.err = NoError =>
        \A tf \in SharedFields :
            \/ InEntityKey(tf[1], tf[2])
            \/ \A i \in 1..Len(Declaring(tf[1], tf[2])) :
                  MarkedShareable(Declaring(tf[1], tf[2])[i], tf[1], tf[2])

\* the result types the subgraphs of the input declare for T.F
DeclaredTypes(T, F) ==
    {p[2].ty : p \in UNION {DeclarationsOf(sub, T, F) : sub \in SeqToSet(federation_sdl)}}

\* C12: when combine returns a schema, all subgraphs that declare the same
\* field of the same type declare it with one identical result type, marked
\* @shareable or not; and FieldTypeConflicted names a field whose declared
\* result types differ.
C12_SharedFieldsOneResultType ==
    cpc = "done" =>
        /\ composed.err = NoError =>
              \A tf \in SharedFields : Cardinality(DeclaredTypes(tf[1], tf[2])) = 1
        /\ composed.err.kind = "FieldTypeConflicted" =>
              /\ {composed.err.type1, composed.err.type2}
                    \subseteq DeclaredTypes(composed.err.type_name, composed.err.field_name)
              /\ composed.err.type1 # composed.err.type2

\* the definitions (not extensions) of the type T in one subgraph, and the
\* subgraphs of the input, in service-name order, that define T
DefinitionsOf(sub, T) ==
    {d \in SeqToSet(sub.doc) : d.name = T /\ ~d.extend /\ d.kind # "Schema"}
Defining(T) ==
    SelectSeq(SortServices(federation_sdl), LAMBDA sub : DefinitionsOf(sub, T) # {})

\* the types of the input that are not @shareable, not entities and not
\* root operation types
OwnedTypes ==
    {T \in UNION {{d.name : d \in {x \in SeqToSet(sub.doc) : x.kind # "Schema"}}
                  : sub \in SeqToSet(federation_sdl)} :
        /\ T \notin RootObjects
        /\ Defining(T) # <<>>
        /\ \A sub \in SeqToSet(federation_sdl) : \A d \in SeqToSet(sub.doc) :
              d.name = T => ~d.shareable /\ d.keys = <<>>}

\* C13: when combine returns a schema, each type that is not @shareable, not
\* an entity and not a root operation type, object types included, is
\* defined by one subgraph only and has that subgraph as its owner; a second
\* definition makes combine fail with ValueTypeOwnershipConflicted.
C13_OneOwnerPerValueType ==
    cpc = "done" =>
        /\ composed.err = NoError =>
              \A T \in OwnedTypes :
                  /\ Len(Defining(T)) = 1
                  /\ Get(composed.types, T).owner = Defining(T)[1].service
        /\ composed.err.kind = "ValueTypeOwnershipConflicted" =>
              /\ composed.err.type_name \in OwnedTypes
              /\ composed.err.owner_service = Defining(composed.err.type_name)[1].service

\* the (type, name, service) of every top-level name of a @key that no
\* definition of that type in the same subgraph declares as a field
MissingKeys ==
    UNION {UNION {UNION {{<<d.name, n, sub.service>> :
                            n \in {k \in KeyNames(d.keys[i]) :
                                     \A e \in ObjectDefs(sub) :
                                        e.name = d.name => k \notin SeqToSet(FieldNames(e.fields))}}
                         : i \in 1..Len(d.keys)}
                  : d \in ObjectDefs(sub)}
           : sub \in SeqToSet(federation_sdl)}

\* the (type, name, service) of every top-level name of every @key
DeclaredKeys ==
    UNION {UNION {UNION {{<<d.name, n, sub.service>> : n \in KeyNames(d.keys[i])}
                         : i \in 1..Len(d.keys)}
                  : d \in ObjectDefs(sub)}
           : sub \in SeqToSet(federation_sdl)}

DeclaredArgs(T, F) ==
    {p[2].args : p \in UNION {DeclarationsOf(sub, T, F) : sub \in SeqToSet(federation_sdl)}}
RequiredNames(args) == {a.name : a \in {x \in SeqToSet(args) : RequiredArg(x)}}

RequiredArgsIn(mine, theirs) ==
    \A x \in SeqToSet(mine) :
        RequiredArg(x) => \E y \in SeqToSet(theirs) : y.name = x.name /\ y.ty = x.ty

MaxRequestItems == 2

\* the gateway's subgraphs, two of them with subscription root fields
EventSubgraphs == <<
    Subgraph("users", UsersSDL \o
        <<ObjType("Subscription", <<Fld("userCreated", Ty("User"))>>)>>),
    Subgraph("reviews", ReviewsSDL \o
        <<ObjType("Subscription", <<Fld("reviewAdded", Ty("Review"))>>)>>),
    Subgraph("products", ProductsSDL), Subgraph("inventory", InventorySDL) >>

\* Selection::FragmentSpread with the result of fragments.get(name): the
\* fragment's selection set when the document defines it; tc is the
\* fragment's type condition, set where the spread is written
Spread(n, defined, sel) ==
    [k |-> "spread", name |-> n, defined |-> defined, sel |-> sel, tc |-> ""]

\* a field with arguments; an argument's value is the variable `var` or,
\* when var is "", a constant
WithArgs(f, args) ==
    [k |-> "field", name |-> f.name, alias |-> f.alias, sel |-> f.sel, args |-> args]

\* the requests: one operation per document, named doc_name or anonymous
\* (""), the caller's operation_name ("" for None), the definition of the
\* variable $n and whether the caller supplies a value for it
Requests ==
    LET QueryItems == {
            Field("user", <<Leaf("name"), Field("reviews", <<Leaf("text")>>)>>),
            Field("__schema", <<Field("queryType", <<Leaf("name")>>)>>),
            WithArgs(Field("__type", <<Leaf("name")>>), <<[name |-> "name", var |-> "n"]>>),
            InlineFragment("Query", <<Field("__schema", <<Leaf("description")>>),
                                      Field("topReviews", <<Leaf("text")>>)>>),
            Spread("Missing", FALSE, <<>>) }
        MutationItems == {
            Field("createUser", <<Leaf("name")>>), Field("addReview", <<Leaf("text")>>) }
        SubscriptionItems == {
            Field("reviewAdded", <<Leaf("text"), Field("author", <<Leaf("name")>>)>>),
            Field("userCreated", <<Leaf("name")>>),
            InlineFragment("Subscription", <<Field("reviewAdded", <<Leaf("text")>>)>>),
            [Spread("OneField", TRUE, <<Field("userCreated", <<Leaf("name")>>)>>)
                EXCEPT !.tc = "Subscription"],
            Spread("Missing", FALSE, <<>>) }
        UsesN(sel) == \E i \in 1..Len(sel) : sel[i].k = "field" /\ sel[i].name = "__type"
        Names == {<<"", "">>, <<"Q", "Q">>, <<"", "Q">>}
        Req(ty, sel, nm, def, given) ==
            [ty |-> ty, sel |-> sel, doc_name |-> nm[1], operation_name |-> nm[2],
             n_def |-> def, variables |-> IF given THEN {"n"} ELSE {}]
    IN {Req("query", sel, nm, def, given) :
            sel \in {x \in SeqsUpTo(QueryItems, MaxRequestItems) : UsesN(x)},
            nm \in Names, def \in {"none", "default", "required"}, given \in BOOLEAN}
       \cup {Req("query", sel, nm, "none", FALSE) :
            sel \in {x \in SeqsUpTo(QueryItems, MaxRequestItems) : ~UsesN(x)}, nm \in Names}
       \cup {Req("mutation", sel, nm, "none", FALSE) :
            sel \in SeqsUpTo(MutationItems, MaxRequestItems), nm \in Names}
       \cup {Req("subscription", sel, nm, "none", FALSE) :
            sel \in SeqsUpTo(SubscriptionItems, MaxRequestItems), nm \in Names}

\* single_field_subscriptions.rs 32-55
RECURSIVE count_fields(_)
count_fields(sel) ==
    IF sel = <<>> THEN 0
    ELSE (IF Head(sel).k = "field" THEN 1 ELSE count_fields(Head(sel).sel))
         + count_fields(Tail(sel))

\* single_field_subscriptions.rs 13-30
SingleFieldSubscriptions(req) ==
    IF req.ty = "subscription" /\ count_fields(req.sel) > 1
    THEN <<[message |-> "Subscription operations must have exactly one root field",
            locations |-> <<"selection_set">>]>>
    ELSE <<>>

\* graphgate_validation::check_rules: the errors of the rules that bear on
\* the requests; known fragment names and no undefined variables after the
\* list of required rules
ValidationErrors(req) ==
    LET RECURSIVE Spreads(_)
        Spreads(sel) ==
            IF sel = <<>> THEN <<>>
            ELSE (IF Head(sel).k = "spread" THEN <<Head(sel)>> \o Spreads(Head(sel).sel)
                  ELSE Spreads(Head(sel).sel)) \o Spreads(Tail(sel))
        RECURSIVE Vars(_)
        Vars(sel) ==
            IF sel = <<>> THEN <<>>
            ELSE (IF Head(sel).k = "field" /\ "args" \in DOMAIN Head(sel)
                  THEN SelectSeq([i \in 1..Len(Head(sel).args) |-> Head(sel).args[i].var],
                                 LAMBDA v : v # "")
                  ELSE <<>>) \o Vars(Head(sel).sel) \o Vars(Tail(sel))
        unknown == SelectSeq(Spreads(req.sel), LAMBDA x : ~x.defined)
        undefined == IF req.n_def = "none" THEN Vars(req.sel) ELSE <<>>
    IN [i \in 1..Len(unknown) |->
            [message |-> "Unknown fragment", locations |-> <<unknown[i].name>>]]
       \o [i \in 1..Len(undefined) |->
            [message |-> "Variable is not defined", locations |-> <<undefined[i]>>]]
       \o SingleFieldSubscriptions(req)

\* plan_builder.rs 362-384: the root fields of a subscription; r is
\* [root_group, group, key_id]
RECURSIVE build_subscribe_fields(_, _, _, _)
build_subscribe_fields(r, h, parent_type, sel) ==
    IF sel = <<>> THEN r
    ELSE
      LET item == Head(sel)
      IN TheOne({build_subscribe_fields(r1, h, parent_type, Tail(sel)) :
           r1 \in {
            IF item.k # "field" THEN r
            ELSE IF ~Contains(parent_type.fields, item.name) THEN r
            ELSE IF Get(parent_type.fields, item.name).service = NoService THEN r
            ELSE
              LET service == Get(parent_type.fields, item.name).service
              IN TheOne({
                   TheOne({[r EXCEPT !.root_group =
                                        [rg EXCEPT ![IndexOf(rg, service)].sel = built.sel],
                                     !.group = built.group,
                                     !.key_id = built.key_id] :
                           built \in {build_field(
                               PlanState(<<>>, Get(rg, service).sel, r.group, r.key_id),
                               h, service, parent_type, item)}}) :
                   rg \in {selection_set_mut(r.root_group, service, "query")}})}})

InitPlan ==
    /\ cpc = "done" /\ federation_sdl = EventSubgraphs
    /\ sorted_services = SortServices(EventSubgraphs)
    /\ next_service = Len(EventSubgraphs) + 1
    /\ composed = Combine(EventSubgraphs, ServiceNames)
    /\ pc = "received"
    /\ operation \in Requests
    /\ root_group = <<>>
    /\ fetch_entity_group = <<>>
    /\ introspection = <<>>
    /\ key_id = 1
    /\ nodes = <<>>
    /\ plan = <<>>

\* plan() without the call of check_rules
CheckRulesSkipped ==
    /\ pc = "received"
    /\ pc' = "validated"
    /\ UNCHANGED <<operation, root_group, fetch_entity_group, introspection, key_id,
                   nodes, plan>>
    /\ UNCHANGED composerVars
\* plan_builder.rs 76-95 and 106: check_rules()?
CheckRules ==
    /\ pc = "received"
    /\ \E rule_errors \in {ValidationErrors(operation)} :
          IF rule_errors # <<>>
          THEN /\ plan' = [type |-> "response", data |-> "null",
                           errors |-> [i \in 1..Len(rule_errors) |->
                                          [message |-> rule_errors[i].message,
                                           path |-> <<>>,
                                           locations |-> rule_errors[i].locations,
                                           extensions |-> <<>>]]]
               /\ pc' = "done"
          ELSE /\ plan' = plan
               /\ pc' = "validated"
    /\ UNCHANGED <<operation, root_group, fetch_entity_group, introspection, key_id, nodes>>
    /\ UNCHANGED composerVars

\* plan_builder.rs 108-122 with utils.rs 24-41: get_operation and the root
\* type; an anonymous operation is DocumentOperations::Single, a named one
\* the only entry of DocumentOperations::Multiple
GetOperation ==
    /\ pc = "validated"
    /\ LET found == IF operation.operation_name # ""
                    THEN operation.doc_name # ""
                         /\ operation.doc_name = operation.operation_name
                    ELSE TRUE
       IN pc' = IF ~found THEN "panicked"
                ELSE IF operation.ty = "subscription" THEN "subscribe"
                ELSE "idle"
    /\ UNCHANGED <<operation, root_group, fetch_entity_group, introspection, key_id,
                   nodes, plan>>
    /\ UNCHANGED composerVars

\* build_root_selection_set, lines 187-198, with build_introspection_field
\* (463-540), whose convert_arguments unwraps variables.get(name)
BuildRootOrPanic ==
    LET \* the fields build_root_selection_set_rec (294-343) hands to
        \* build_introspection_field
        RECURSIVE IntrospectionFieldsOf(_, _)
        IntrospectionFieldsOf(parent_type, sel) ==
            IF sel = <<>> THEN <<>>
            ELSE (IF Head(sel).k # "field"
                  THEN IntrospectionFieldsOf(parent_type, Head(sel).sel)
                  ELSE IF Contains(parent_type.fields, Head(sel).name)
                          /\ is_introspection_field(Head(sel).name)
                  THEN <<Head(sel)>> ELSE <<>>)
                 \o IntrospectionFieldsOf(parent_type, Tail(sel))
        \* convert_arguments (518-537) on the arguments of the fields of sel
        RECURSIVE convert_arguments_panics(_, _)
        convert_arguments_panics(sel, variables) ==
            \E i \in 1..Len(sel) :
                \/ /\ sel[i].k = "field" /\ "args" \in DOMAIN sel[i]
                   /\ \E j \in 1..Len(sel[i].args) :
                         sel[i].args[j].var # "" /\ sel[i].args[j].var \notin variables
                \/ convert_arguments_panics(sel[i].sel, variables)
    IN
    /\ pc = "idle"
    /\ IF convert_arguments_panics(
             IntrospectionFieldsOf(Get(Schema, RootTypeName(operation.ty)), operation.sel),
             operation.variables)
       THEN /\ pc' = "panicked"
            /\ UNCHANGED <<operation, root_group, fetch_entity_group, introspection, key_id,
                           nodes, plan>>
            /\ UNCHANGED composerVars
       ELSE BuildRootSelectionSet

\* build_subscribe, lines 359-384
BuildSubscribe ==
    /\ pc = "subscribe"
    /\ \E h \in HashOrders :
          \E r \in {build_subscribe_fields(
                        [root_group |-> <<>>, group |-> <<>>, key_id |-> 1],
                        h, Get(Schema, "Subscription"), operation.sel)} :
             /\ root_group' = r.root_group
             /\ fetch_entity_group' = r.group
             /\ key_id' = r.key_id
    /\ pc' = "subscribed"
    /\ UNCHANGED <<operation, introspection, nodes, plan>>
    /\ UNCHANGED composerVars

\* build_subscribe, lines 404-449: one pass of the while loop; the Flatten
\* nodes carry OperationType::Query
SubscribeFlattenRound ==
    /\ pc = "subscribed"
    /\ fetch_entity_group # <<>>
    /\ \E h \in HashOrders : \E r \in {FlattenRoundOf(fetch_entity_group, key_id, h)} :
          /\ nodes' = Append(nodes, flatten(ParallelNode(
                 [i \in 1..Len(r.flatten_nodes) |->
                     [f \in DOMAIN r.flatten_nodes[i] \cup {"operation_type"} |->
                         IF f = "operation_type" THEN "query"
                         ELSE r.flatten_nodes[i][f]]])))
          /\ fetch_entity_group' = r.next_group
          /\ key_id' = r.key_id
    /\ UNCHANGED <<pc, operation, root_group, introspection, plan>>
    /\ UNCHANGED composerVars

\* build_subscribe, lines 386-402 and 451-459
ReturnSubscribe ==
    /\ pc = "subscribed"
    /\ fetch_entity_group = <<>>
    /\ plan' = [type |-> "subscribe",
                subscribe_nodes |-> [i \in 1..Len(root_group) |->
                    FetchNode(root_group[i].name, "subscription", root_group[i].sel)],
                flatten_node |-> IF nodes = <<>> THEN <<>>
                                 ELSE <<flatten(SequenceNode(nodes))>>]
    /\ pc' = "done"
    /\ UNCHANGED <<operation, root_group, fetch_entity_group, introspection, key_id, nodes>>
    /\ UNCHANGED composerVars

NextPlan ==
    \/ CheckRules \/ GetOperation \/ BuildRootOrPanic \/ EmitRootFetches \/ FlattenRound
    \/ ReturnPlan \/ BuildSubscribe \/ SubscribeFlattenRound \/ ReturnSubscribe

SpecPlan == InitPlan /\ [][NextPlan]_vars

\* the fields of a root selection, with the fields of the fragments it
\* spreads and of its inline fragments in their place
RECURSIVE EffectiveRootFields(_)
EffectiveRootFields(sel) ==
    IF sel = <<>> THEN <<>>
    ELSE (IF Head(sel).k = "field" THEN <<Head(sel)>> ELSE EffectiveRootFields(Head(sel).sel))
         \o EffectiveRootFields(Tail(sel))

\* the Introspection nodes of a plan
RECURSIVE IntrospectionNodesOf(_)
IntrospectionNodesOf(node) ==
    IF node.type \in {"sequence", "parallel"}
    THEN UNION {IntrospectionNodesOf(node.nodes[i]) : i \in 1..Len(node.nodes)}
    ELSE IF node.type = "introspection" THEN {node} ELSE {}

\* the Fetch and Flatten nodes of a returned plan, a Subscribe node included
SentNodes ==
    IF plan.type = "subscribe"
    THEN SeqToSet(plan.subscribe_nodes)
         \cup UNION {SeqToSet(LeavesOf(plan.flatten_node[i])) : i \in 1..Len(plan.flatten_node)}
    ELSE IF plan.type = "response" THEN {}
    ELSE SeqToSet(LeavesOf(plan))

C17_ValidationFirst ==
    ValidationErrors(operation) # <<>> =>
        /\ pc \in {"received", "done"}
        /\ root_group = <<>> /\ fetch_entity_group = <<>>
        /\ introspection = <<>> /\ nodes = <<>>
        /\ pc = "done" =>
              /\ plan.type = "response"
              /\ plan.data = "null"
              /\ Len(plan.errors) = Len(ValidationErrors(operation))
              /\ \A i \in 1..Len(plan.errors) :
                    /\ plan.errors[i].message = ValidationErrors(operation)[i].message
                    /\ plan.errors[i].locations = ValidationErrors(operation)[i].locations
C17_Witness ==
    /\ pc = "done"
    /\ plan.type = "response"
    /\ Len(plan.errors) >= 2
    /\ plan.errors[1].message # plan.errors[2].message

\* the response of plan() carries the error of the single-field rule
SingleFieldErrorReported ==
    /\ pc = "done" /\ plan.type = "response"
    /\ \E i \in 1..Len(plan.errors) :
          plan.errors[i].message = "Subscription operations must have exactly one root field"

ContributingServices ==
    {FieldOf("Subscription", f.name).service :
        f \in {x \in SeqToSet(EffectiveRootFields(operation.sel)) :
                  HasField("Subscription", x.name)}}

\* C19: the plan of a validated subscription is a Subscribe node with one
\* subscribe Fetch for each subgraph that resolves a root field, also when
\* the root field stands inside a fragment spread or an inline fragment, and
\* with no other subscribe Fetch; every Flatten that follows has the
\* operation type query.
C19_SubscribePlan ==
    pc = "done" /\ operation.ty = "subscription" /\ plan.type # "response" =>
        /\ plan.type = "subscribe"
        /\ \A svc \in ContributingServices :
              Cardinality({i \in 1..Len(plan.subscribe_nodes) :
                              plan.subscribe_nodes[i].service = svc}) = 1
        /\ \A i \in 1..Len(plan.subscribe_nodes) :
              plan.subscribe_nodes[i].service \in ContributingServices
        /\ \A n \in SentNodes : n.type = "flatten" => n.operation_type = "query"

\* C20: plan() never panics on a request that passed validation, also when
\* a variable with a default value was not supplied by the caller and when
\* the argument of an introspection field refers to a variable.
C20_PlanNeverPanics ==
    pc # "panicked"

\* the types of the input that are not object types and that two or more
\* subgraphs define alike (up to @shareable and @owner), the first of them,
\* in service-name order, without @shareable: the second definition is an
\* identical redefinition of an owned type
Unmarked(d) == [d EXCEPT !.shareable = FALSE, !.owner = NoService]
RedefinedTypes ==
    {T \in UNION {{d.name : d \in {x \in SeqToSet(sub.doc) :
                                       x.kind \notin {"Object", "Schema"}}}
                  : sub \in SeqToSet(federation_sdl)} :
        /\ T \notin COMMON_SCALAR_TYPES
        /\ Len(Defining(T)) >= 2
        /\ \A d \in DefinitionsOf(Defining(T)[1], T) : ~d.shareable
        /\ \A i, j \in 1..Len(Defining(T)) :
              \A d \in DefinitionsOf(Defining(T)[i], T), e \in DefinitionsOf(Defining(T)[j], T) :
                  Unmarked(d) = Unmarked(e)}
RedefinitionRejected(T) ==
    /\ composed.err.kind \in {"ValueTypeOwnershipConflicted", "DefinitionConflicted",
                              "TypeKindConflicted"}
    /\ composed.err.type_name = T

\* C21: when combine has returned, the identical redefinition of an owned
\* type that is not an object type, by the next subgraph that defines it, is
\* accepted if and only if it carries @shareable: with @shareable combine
\* does not fail because of the type, and the composed type has no owner;
\* without it combine returns no schema.
C21_ShareableRedefinitionAccepted ==
    cpc = "done" =>
        \A T \in RedefinedTypes :
            \A d \in DefinitionsOf(Defining(T)[2], T) :
                IF d.shareable
                THEN /\ ~RedefinitionRejected(T)
                     /\ composed.err = NoError => Get(composed.types, T).owner = NoService
                ELSE composed.err # NoError

\* the @link directives of the schema blocks of the input
InputLinks ==
    UNION {{d.link : d \in {x \in SeqToSet(sub.doc) : x.kind = "Schema"}}
           : sub \in SeqToSet(federation_sdl)}

\* C22: when combine returns a schema and the schema blocks of the input
\* carry one @link to a federation url that ends in vX.Y, the composed schema
\* has federation_version X.Y, the namespace `federation__`, or `<as>__`
\* when the link has `as`, and a directive_mapping that maps every imported
\* short name to itself and every renamed name to its original name.
C22_LinkPopulatesFederationMetadata ==
    cpc = "done" /\ composed.err = NoError =>
        \A link \in InputLinks :
            InputLinks = {link} /\ "federation" \in SeqToSet(link.url.path)
              /\ Head(link.url.last) = "v" =>
                /\ composed.federation_version = [some |-> TRUE, v |-> Tail(link.url.last)]
                /\ composed.federation_namespace =
                      [some |-> TRUE,
                       v |-> <<IF link.as_name = "" THEN "federation" ELSE link.as_name, "__">>]
                /\ \A i \in 1..Len(link.import) :
                      LET imp == link.import[i]
                          used == IF "as_name" \in DOMAIN imp THEN imp.as_name ELSE imp.name
                      IN imp.at =>
                          /\ used \in DOMAIN composed.directive_mapping
                          /\ composed.directive_mapping[used] = imp.name

(***************************************************************************)
(* SpecNested: plan() called again and again on a schema whose entities    *)
(* refer to themselves and to each other, and that has interfaces          *)
(***************************************************************************)
MaxNestedFields == 2
MaxChain == 24

\* users owns User and its friend; reviews extends User by its reviews and
\* karma; users extends Review by its author; products serves a feed of
\* Media, an interface of Post and Photo, Photo being Rated as well
NestedSubgraphs == <<
    Subgraph("users", <<
        ObjType("Query", <<Fld("me", Ty("User"))>>),
        Entity("User", KeyId,
            <<Fld("id", TyNN("ID")), Fld("name", Ty("String")), Fld("friend", Ty("User"))>>),
        ExtendEntity("Review", KeyId,
            <<External("id", TyNN("ID")), Fld("author", Ty("User"))>>) >>),
    Subgraph("reviews", <<
        Entity("Review", KeyId, <<Fld("id", TyNN("ID")), Fld("body", Ty("String"))>>),
        ExtendEntity("User", KeyId,
            <<External("id", TyNN("ID")), Fld("reviews", TyList("Review")),
              [Fld("karma", Ty("Int")) EXCEPT !.requires = SomeKF(<<KF("name")>>)]>>) >>),
    Subgraph("products", <<
        ObjType("Query", <<Fld("feed", TyList("Media"))>>),
        [OtherType("Media", "Interface") EXCEPT
            !.fields = <<Fld("id", TyNN("ID")), Fld("title", Ty("String"))>>],
        [OtherType("Rated", "Interface") EXCEPT
            !.fields = <<Fld("title", Ty("String")), Fld("stars", Ty("Int"))>>],
        [ObjType("Post", <<Fld("id", TyNN("ID")), Fld("title", Ty("String")),
                           Fld("body", Ty("String"))>>)
            EXCEPT !.implements = <<"Media">>],
        [ObjType("Photo", <<Fld("id", TyNN("ID")), Fld("title", Ty("String")),
                            Fld("stars", Ty("Int"))>>)
            EXCEPT !.implements = <<"Media", "Rated">>] >>) >>

\* the root fields of validated queries: selections nested through
\* User.friend, User.reviews and Review.author, under their own names or
\* under one alias per level, and selections on the feed with inline
\* fragments and with spreads of the fragments
\*   fragment OnPost on Post { body }     fragment OnMedia on Media { title }
\*   fragment OnRated on Rated { title }
NestedFields ==
    LET RECURSIVE Chain(_, _, _)
        Chain(names, aliased, tail) ==
            IF names = <<>> THEN tail
            ELSE LET f == Field(Head(names), Chain(Tail(names), aliased, tail))
                 IN <<IF aliased THEN Aliased("a" \o ToString(Len(names)), f) ELSE f>>
        Friends(n) == [i \in 1..n |-> "friend"]
        Hops(n) == [i \in 1..n |-> IF i % 2 = 1 THEN "reviews" ELSE "author"]
        End(n) == IF n % 2 = 1 THEN <<Leaf("body")>> ELSE <<Leaf("name")>>
        On(tc, sp) == [sp EXCEPT !.tc = tc]
    IN {Field("me", <<Leaf("name")>>),
        Field("me", <<Leaf("karma")>>),
        Field("me", <<Aliased("r1", Field("reviews", <<Leaf("body")>>)),
                      Aliased("r2", Field("reviews", <<Leaf("body")>>))>>),
        Field("me", Chain(Hops(4), FALSE, End(4))),
        Field("me", Chain(Hops(MaxChain), TRUE, End(MaxChain))),
        Field("me", Chain(Friends(3), FALSE, <<Field("reviews", <<Leaf("body")>>)>>)),
        Field("me", <<Aliased("a0", Field("friend",
                          Chain(Hops(MaxChain), TRUE, End(MaxChain))))>>),
        Field("feed", <<Leaf("title")>>),
        Field("feed", <<Leaf("title"), InlineFragment("Post", <<Leaf("body")>>)>>),
        Field("feed", <<InlineFragment("Media", <<Leaf("title")>>)>>),
        Field("feed", <<On("Post", Spread("OnPost", TRUE, <<Leaf("body")>>)),
                        Leaf("title")>>),
        Field("feed", <<On("Media", Spread("OnMedia", TRUE, <<Leaf("title")>>))>>),
        Field("feed", <<On("Rated", Spread("OnRated", TRUE, <<Leaf("title")>>))>>)}

InitNested ==
    /\ cpc = "done" /\ federation_sdl = NestedSubgraphs
    /\ sorted_services = SortServices(NestedSubgraphs)
    /\ next_service = Len(NestedSubgraphs) + 1
    /\ composed = Combine(NestedSubgraphs, ServiceNames)
    /\ pc = "idle"
    /\ operation \in {Operation("query", sel) : sel \in SeqsUpTo(NestedFields, MaxNestedFields)}
    /\ root_group = <<>>
    /\ fetch_entity_group = <<>>
    /\ introspection = <<>>
    /\ key_id = 1
    /\ nodes = <<>>
    /\ plan = <<>>

\* plan(&self) called once more on the same builder: create_context builds
\* a fresh Context, whose key_id is 1, and the groups start empty
PlanAgain ==
    /\ pc = "done"
    /\ operation' = operation
    /\ pc' = "idle"
    /\ root_group' = <<>>
    /\ fetch_entity_group' = <<>>
    /\ introspection' = <<>>
    /\ key_id' = 1
    /\ nodes' = <<>>
    /\ plan' = <<>>
    /\ UNCHANGED composerVars

NextNested == Next \/ PlanAgain

SpecNested == InitNested /\ [][NextNested]_vars

(***************************************************************************)
(* Claims about the bounds of the traversal                                *)
(***************************************************************************)
\* the passes of the flatten loop that have run
RoundsRun ==
    IF pc \in {"flattening", "done"}
    THEN Len(nodes) - (IF introspection # <<>> THEN 2 ELSE 1)
    ELSE 0

PathsRecorded ==
    {fetch_entity_group[i].key.path : i \in 1..Len(fetch_entity_group)}
    \cup UNION {{n.path : n \in {x \in SeqToSet(LeavesOf(nodes[i])) : x.type = "flatten"}}
                : i \in 1..Len(nodes)}

\* C24: no recorded response path, and so no Flatten.path of the plan,
\* holds more than MAX_PATH_LENGTH segments.
C24_PathsWithinMaxLength ==
    \A p \in PathsRecorded : Len(p) <= MAX_PATH_LENGTH

\* C25: no recorded response path holds the same name more than
\* MAX_FIELD_REPETITIONS times, whatever its length.
C25_NoNameMoreThanTwice ==
    \A p \in PathsRecorded :
        \A i \in 1..Len(p) :
            Cardinality({j \in 1..Len(p) : p[j].name = p[i].name}) <= MAX_FIELD_REPETITIONS

\* C26: build_field returns with the path it was called with: called for a
\* root field of the operation with the empty path, it leaves the path
\* empty, whatever the fields selected below the root field.
C26_BuildFieldRestoresPath ==
    pc = "rooted" =>
        \A h \in HashOrders : \A i \in 1..Len(operation.sel) :
            LET f == operation.sel[i]
                root == Get(Schema, RootTypeName(operation.ty))
            IN f.k = "field" /\ Contains(root.fields, f.name)
                 /\ Get(root.fields, f.name).service # NoService =>
                   build_field(PlanState(<<>>, <<>>, <<>>, 1), h,
                               Get(root.fields, f.name).service, root, f).path = <<>>

\* the Flatten nodes emitted so far, as (pass, position in the pass, node)
FlattensEmitted ==
    UNION {{[round |-> i, at |-> j, node |-> LeavesOf(nodes[i])[j]]
            : j \in {k \in 1..Len(LeavesOf(nodes[i])) :
                        LeavesOf(nodes[i])[k].type = "flatten"}}
           : i \in 1..Len(nodes)}

Covers(tc, pt) ==
    \/ tc = pt
    \/ /\ Contains(Schema, tc)
       /\ Get(Schema, tc).kind \in {"Interface", "Union"}
       /\ pt \in SeqToSet(Get(Schema, tc).possible_types)

\* the response keys an operation's selection asks of an object of type pt
RECURSIVE AskedOf(_, _)
AskedOf(sel, pt) ==
    UNION {IF sel[i].k = "field" THEN {response_key(sel[i])}
           ELSE IF sel[i].k = "spread" /\ ~sel[i].defined THEN {}
           ELSE IF sel[i].tc = "" \/ Covers(sel[i].tc, pt) THEN AskedOf(sel[i].sel, pt)
           ELSE {}
           : i \in 1..Len(sel)}

\* the response keys of the `... on pt` fragments of a built selection
EmittedFor(sel, pt) ==
    UNION {{response_key(sel[i].selection_set[j].field)
            : j \in {k \in 1..Len(sel[i].selection_set) :
                        sel[i].selection_set[k].k = "FieldRef"}}
           : i \in {k \in 1..Len(sel) : sel[k].k = "InlineFragment"
                                        /\ sel[k].type_condition = pt}}

\* the root fields built whose return type is an interface or a union
AbstractRootFields ==
    UNION {{root_group[g].sel[i] : i \in {k \in 1..Len(root_group[g].sel) :
                LET fr == root_group[g].sel[k]
                    fd == Get(Get(Schema, RootTypeName(operation.ty)).fields, fr.field.name)
                IN fr.k = "FieldRef" /\ HasType(fd.ty)
                   /\ get_type(fd.ty).kind \in {"Interface", "Union"}}}
           : g \in 1..Len(root_group)}

\* C28: for a field of abstract type, the fragment emitted for each possible
\* type pt holds exactly the fields selected directly and those of the
\* inline fragments and fragment spreads whose type condition covers pt.
C28_FragmentsExpandedPerPossibleType ==
    pc = "rooted" =>
        \A fr \in AbstractRootFields :
            LET fd == Get(Get(Schema, RootTypeName(operation.ty)).fields, fr.field.name)
            IN \A pt \in SeqToSet(get_type(fd.ty).possible_types) :
                  EmittedFor(fr.selection_set, pt) = AskedOf(fr.field.sel, pt)

(***************************************************************************)
(* Claims about the shape of the returned plan                             *)
(***************************************************************************)
\* C29: every Fetch and every Flatten of the returned plan selects at least
\* one field.
C29_NoEmptySelectionSets ==
    pc = "done" =>
        \A x \in PlanLeaves : x.node.selection_set # <<>>

\* the Sequence and Parallel nodes of a plan, at any depth
RECURSIVE GroupNodesOf(_)
GroupNodesOf(node) ==
    IF node.type \in {"sequence", "parallel"}
    THEN {node} \cup UNION {GroupNodesOf(node.nodes[i]) : i \in 1..Len(node.nodes)}
    ELSE {}

\* C30: no Sequence and no Parallel of the returned plan has exactly one
\* child.
C30_NoSingleChildGroups ==
    pc = "done" =>
        \A g \in GroupNodesOf(plan) : Len(g.nodes) # 1

\* a query answered by one subgraph without an entity hop has been planned
\* as a bare Fetch
C30_Witness ==
    /\ pc = "done"
    /\ Len(operation.sel) = 1
    /\ plan.type = "fetch"

====
